---- MODULE Spec2Model ----
(***************************************************************************)
(* Model of the HEBench test harness front end:                            *)
(*   - PartialBenchmark life cycle (hebench_ibenchmark.cpp),               *)
(*   - workload descriptor matchers (DotProduct, LogisticRegression,       *)
(*     MatrixMultiply) and token issuance,                                 *)
(*   - description (canonical path and report header) of a benchmark.      *)
(* Strings that the code inspects character by character are sequences of  *)
(* one-character strings; labels are plain strings.                        *)
(***************************************************************************)
EXTENDS Integers, Sequences, FiniteSets, TLC

VARIABLES
    \* ---- PartialBenchmark object (hebench_ibenchmark.cpp:303-382) ----
    obj,                    \* "none" | "alive" | "ctor_failed" | "destroyed"
    bench_class,            \* benchmark class being constructed (its matcher)
    m_p_engine,             \* TRUE while the benchmark holds its shared_ptr<Engine>
    m_handle,               \* backend benchmark handle, 0 = zeroed by memset
    m_current_event_id,
    m_b_constructed,
    m_b_initialized,
    m_h_descriptor,         \* cached from the token by internalInit
    m_benchmark_descriptor,
    m_workload_params,
    m_bench_config,
    event_id_start,         \* value of the category's getEventIDStart()
    \* ---- environment of the benchmark ----
    owner_holds,            \* the creator of the engine still holds its shared_ptr
    live_handles,           \* handles issued by initBenchmark and not yet destroyed
    next_handle,            \* next handle the backend issues
    destroy_log,            \* calls of APIBridge::destroyHandle, in order
    report,                 \* events added to the TimingReportEx, in order
    check_result,           \* outcome of the last checkInitializationState
    \* ---- history of the calls made on the benchmark ----
    token_caller,           \* matcher that sealed the token given to the constructor
    init_backend_calls,     \* calls of initBackend
    init_backend_ok,        \* calls of initBackend that completed
    post_init_calls,        \* calls of postInit
    ordered,                \* some postInit call came after a completed initBackend
    \* ---- descriptor matching (inputs and outputs of one call) ----
    in_matcher,             \* the matcher object ("this")
    in_desc,                \* BenchmarkDescriptor the backend reports
    in_wparams,             \* w_params vector
    in_backend,             \* return codes and counts the backend produces
    out_match,              \* result of the workload matcher
    out_token,              \* result of matchBenchmarkDescriptor(engine, ...)
    \* ---- one call of a static helper function ----
    fn_args,                \* the arguments of the call, by parameter name
    fn_ret,                 \* what the call returned and wrote through its pointers
    \* ---- data generation ----
    m_rand,                 \* RandomGenerator::m_rand, the process-wide engine
    data_gen,               \* the DataGenerator object being created
    gen_log                 \* the generators created so far, with their data

benchVars == <<m_p_engine, m_handle, m_current_event_id, m_b_constructed,
               m_b_initialized, m_h_descriptor, m_benchmark_descriptor,
               m_workload_params, m_bench_config>>

envVars == <<owner_holds, live_handles, next_handle, destroy_log, report>>

histVars == <<token_caller, init_backend_calls, init_backend_ok,
              post_init_calls, ordered>>

lifeVars == <<obj, bench_class, benchVars, event_id_start, envVars,
              check_result, histVars>>

matchVars == <<in_matcher, in_desc, in_wparams, in_backend, out_match, out_token>>

fnVars == <<fn_args, fn_ret>>

genVars == <<m_rand, data_gen, gen_log>>

vars == <<lifeVars, matchVars, fnVars, genVars>>

----------------------------------------------------------------------------
(* Bounds *)

MaxInitBackendCalls == 2
MaxPostInitCalls == 2
MaxEventIDStart == 2
MaxDescHandle == 2
MaxWParams == 4
MaxTokenWParams == 3
MaxCategoryParams == 2
MaxSampleParams == 2
MaxMaskBitsSet == 2
MaxVectorSize == 2
MaxBatch == 2
MaxSeed == 3
MaxPolyArg == 24
MaxDirNameLen == 4
MaxCopySize == 4
MaxSrcLen == 3

----------------------------------------------------------------------------
(* Character strings *)

Digits == <<"0", "1", "2", "3", "4", "5", "6", "7", "8", "9">>

RECURSIVE to_string(_)
\* std::to_string / operator<< of a non-negative integer
to_string(n) ==
    IF n < 10 THEN <<Digits[n + 1]>>
    ELSE to_string(n \div 10) \o <<Digits[(n % 10) + 1]>>

----------------------------------------------------------------------------
(* API bridge enumerations and the harness' workload matchers *)

Matchers == {"DotProduct", "LogisticRegression", "MatrixMultiply"}

Workloads == {"MatrixMultiply", "EltwiseAdd", "DotProduct", "LogisticRegression",
              "LogisticRegression_PolyD3", "LogisticRegression_PolyD5",
              "LogisticRegression_PolyD7"}

WorkloadParamTypes == {"UInt64", "Int64", "Float64"}

\* WorkloadParam: the type tag and the value held in the union
WParam(t, v) == [data_type |-> t, value |-> v]

----------------------------------------------------------------------------
(* DescriptionToken *)

\* IBenchmarkDescription::createToken: the token records the matcher that
\* creates it ("this") next to the sealed contents
createToken(self, config, h_desc, bench_desc, w_params) ==
    [caller |-> self, config |-> config, h_desc |-> h_desc,
     bench_desc |-> bench_desc, w_params |-> w_params]

\* DescriptionToken::getCaller(FriendKeyAccess): the sealing matcher
getCaller(token) == token.caller

\* DescriptionToken::getDescriptorHandle / getDescriptor / getWorkloadParams /
\* getBenchmarkConfiguration (p_caller): the sealed field when the presented
\* identity is the sealing matcher, a failure otherwise
Unseal(token, p_caller, field) ==
    IF p_caller = token.caller
    THEN [ok |-> TRUE, value |-> token[field]]
    ELSE [ok |-> FALSE, value |-> token[field]]

----------------------------------------------------------------------------
(* Engine and backend, as seen from a benchmark *)

\* The Engine object exists while some shared_ptr to it exists
EngineAlive == owner_holds \/ m_p_engine

\* Engine::validateRetCode: any nonzero code is turned into an exception
validateRetCode(err_code) == err_code = 0

\* PartialBenchmark::getEventIDNext: the next id of the running counter
getEventIDNext == m_current_event_id + 1

\* PartialBenchmark::getEventIDStart: the fixed start id of the category
getEventIDStart == event_id_start

----------------------------------------------------------------------------
(* Tokens handed to the PartialBenchmark constructor *)

LifeDesc ==
    [workload |-> "DotProduct", category |-> "Latency", data_type |-> "Float64",
     cipher_param_mask |-> [hi |-> 0, lo |-> 0], scheme |-> 0, security |-> 0,
     other |-> 0, cat_params |-> [i \in 1..MaxCategoryParams |-> 0]]

LifeWParams == <<WParam("UInt64", 2)>>

LifeConfig == [default_sample_size |-> 1]

LifeTokens ==
    {createToken(m, LifeConfig, h, LifeDesc, LifeWParams) :
        m \in Matchers, h \in 1..MaxDescHandle}

----------------------------------------------------------------------------
(* PartialBenchmark *)

\* PartialBenchmark::internalInit: every sealed field is read presenting the
\* identity that the token itself reports as its caller
internalInit(description_token) ==
    LET caller == getCaller(description_token)
        h == Unseal(description_token, caller, "h_desc")
        d == Unseal(description_token, caller, "bench_desc")
        w == Unseal(description_token, caller, "w_params")
        c == Unseal(description_token, caller, "config")
    IN  [ok |-> h.ok /\ d.ok /\ w.ok /\ c.ok,
         m_h_descriptor |-> h.value, m_benchmark_descriptor |-> d.value,
         m_workload_params |-> w.value, m_bench_config |-> c.value]

\* PartialBenchmark::PartialBenchmark(p_engine, description_token).
\* A constructor that throws runs no destructor body; the members built so
\* far (m_p_engine) are destroyed by the unwinding.
PartialBenchmarkCtor(cls, p_engine_null, description_token) ==
    /\ obj = "none"
    /\ bench_class' = cls
    /\ token_caller' = description_token.caller
    /\ m_current_event_id' = 0
    /\ m_b_initialized' = FALSE
    /\ IF p_engine_null
       THEN /\ obj' = "ctor_failed"
            /\ m_b_constructed' = FALSE
            /\ UNCHANGED <<m_p_engine, m_handle, m_h_descriptor,
                           m_benchmark_descriptor, m_workload_params,
                           m_bench_config>>
       ELSE LET r == internalInit(description_token)
            IN  /\ owner_holds
                /\ m_handle' = 0
                /\ IF r.ok
                   THEN /\ m_p_engine' = TRUE
                        /\ m_h_descriptor' = r.m_h_descriptor
                        /\ m_benchmark_descriptor' = r.m_benchmark_descriptor
                        /\ m_workload_params' = r.m_workload_params
                        /\ m_bench_config' = r.m_bench_config
                        /\ m_b_constructed' = TRUE
                        /\ obj' = "alive"
                   ELSE /\ m_p_engine' = FALSE
                        /\ m_b_constructed' = FALSE
                        /\ obj' = "ctor_failed"
                        /\ UNCHANGED <<m_h_descriptor, m_benchmark_descriptor,
                                       m_workload_params, m_bench_config>>
    /\ UNCHANGED <<event_id_start, envVars, check_result, init_backend_calls,
                   init_backend_ok, post_init_calls, ordered, matchVars, fnVars, genVars>>

\* Destructor that destroys the handle only of an initialized benchmark
PartialBenchmarkDtor_OnlyInitialized ==
    /\ obj = "alive"
    /\ IF m_b_initialized
       THEN /\ destroy_log' = Append(destroy_log,
                                     [handle |-> m_handle,
                                      engine_alive |-> EngineAlive,
                                      last_ref |-> ~owner_holds])
            /\ live_handles' = live_handles \ {m_handle}
       ELSE UNCHANGED <<destroy_log, live_handles>>
    /\ m_p_engine' = FALSE
    /\ obj' = "destroyed"
    /\ UNCHANGED <<bench_class, m_handle, m_current_event_id, m_b_constructed,
                   m_b_initialized, m_h_descriptor, m_benchmark_descriptor,
                   m_workload_params, m_bench_config, event_id_start,
                   owner_holds, next_handle, report, check_result, histVars,
                   matchVars, fnVars, genVars>>

\* Destructor that releases the engine before it destroys the handle
PartialBenchmarkDtor_ResetFirst ==
    /\ obj = "alive"
    /\ destroy_log' = Append(destroy_log,
                             [handle |-> m_handle, engine_alive |-> owner_holds,
                              last_ref |-> ~owner_holds])
    /\ live_handles' = live_handles \ {m_handle}
    /\ m_p_engine' = FALSE
    /\ obj' = "destroyed"
    /\ UNCHANGED <<bench_class, m_handle, m_current_event_id, m_b_constructed,
                   m_b_initialized, m_h_descriptor, m_benchmark_descriptor,
                   m_workload_params, m_bench_config, event_id_start,
                   owner_holds, next_handle, report, check_result, histVars,
                   matchVars, fnVars, genVars>>

\* PartialBenchmark::~PartialBenchmark: destroyHandle(m_handle), then
\* m_p_engine.reset()
PartialBenchmarkDtor ==
    /\ obj = "alive"
    /\ destroy_log' = Append(destroy_log,
                             [handle |-> m_handle, engine_alive |-> EngineAlive,
                              last_ref |-> ~owner_holds])
    /\ live_handles' = live_handles \ {m_handle}
    /\ m_p_engine' = FALSE
    /\ obj' = "destroyed"
    /\ UNCHANGED <<bench_class, m_handle, m_current_event_id, m_b_constructed,
                   m_b_initialized, m_h_descriptor, m_benchmark_descriptor,
                   m_workload_params, m_bench_config, event_id_start,
                   owner_holds, next_handle, report, check_result, histVars,
                   matchVars, fnVars, genVars>>

\* PartialBenchmark::postInit
postInit ==
    /\ obj = "alive"
    /\ post_init_calls < MaxPostInitCalls
    /\ m_current_event_id' = getEventIDStart
    /\ m_b_initialized' = TRUE
    /\ post_init_calls' = post_init_calls + 1
    /\ ordered' = (ordered \/ init_backend_ok > 0)
    /\ UNCHANGED <<obj, bench_class, m_p_engine, m_handle, m_b_constructed,
                   m_h_descriptor, m_benchmark_descriptor, m_workload_params,
                   m_bench_config, event_id_start, envVars, check_result,
                   token_caller, init_backend_calls, init_backend_ok, matchVars, fnVars, genVars>>

\* initBackend with the timing event created and added before the return
\* code of initBenchmark is validated
initBackend_EventFirst(err_code) ==
    /\ obj = "alive"
    /\ init_backend_calls < MaxInitBackendCalls
    /\ init_backend_calls' = init_backend_calls + 1
    /\ m_current_event_id' = getEventIDNext
    /\ report' = Append(report, [id |-> getEventIDNext, iterations |-> 1,
                                 label |-> "Initialization"])
    /\ IF validateRetCode(err_code)
       THEN /\ m_handle' = next_handle
            /\ next_handle' = next_handle + 1
            /\ live_handles' = live_handles \cup {next_handle}
            /\ init_backend_ok' = init_backend_ok + 1
       ELSE UNCHANGED <<m_handle, next_handle, live_handles, init_backend_ok>>
    /\ UNCHANGED <<obj, bench_class, m_p_engine, m_b_constructed, m_b_initialized,
                   m_h_descriptor, m_benchmark_descriptor, m_workload_params,
                   m_bench_config, event_id_start, owner_holds, destroy_log,
                   check_result, token_caller, post_init_calls, ordered,
                   matchVars, fnVars, genVars>>

\* PartialBenchmark::initBackend: initBenchmark returns err_code and, on
\* success, a new handle in m_handle; a nonzero code throws before the
\* event is created
initBackend(err_code) ==
    /\ obj = "alive"
    /\ init_backend_calls < MaxInitBackendCalls
    /\ init_backend_calls' = init_backend_calls + 1
    /\ IF validateRetCode(err_code)
       THEN /\ m_handle' = next_handle
            /\ next_handle' = next_handle + 1
            /\ live_handles' = live_handles \cup {next_handle}
            /\ m_current_event_id' = getEventIDNext
            /\ report' = Append(report, [id |-> getEventIDNext, iterations |-> 1,
                                         label |-> "Initialization"])
            /\ init_backend_ok' = init_backend_ok + 1
       ELSE UNCHANGED <<m_handle, next_handle, live_handles, m_current_event_id,
                        report, init_backend_ok>>
    /\ UNCHANGED <<obj, bench_class, m_p_engine, m_b_constructed, m_b_initialized,
                   m_h_descriptor, m_benchmark_descriptor, m_workload_params,
                   m_bench_config, event_id_start, owner_holds, destroy_log,
                   check_result, token_caller, post_init_calls, ordered,
                   matchVars, fnVars, genVars>>

\* checkInitializationState that tests m_b_constructed
checkInitializationState_Constructed ==
    /\ obj = "alive"
    /\ check_result' = IF ~m_b_constructed THEN "error" ELSE "ok"
    /\ UNCHANGED <<obj, bench_class, benchVars, event_id_start, envVars,
                   histVars, matchVars, fnVars, genVars>>

\* PartialBenchmark::checkInitializationState: throws unless m_b_initialized
checkInitializationState ==
    /\ obj = "alive"
    /\ check_result' = IF ~m_b_initialized THEN "error" ELSE "ok"
    /\ UNCHANGED <<obj, bench_class, benchVars, event_id_start, envVars,
                   histVars, matchVars, fnVars, genVars>>

\* The creator of the engine drops its shared_ptr<Engine>
EngineOwnerReset ==
    /\ owner_holds
    /\ owner_holds' = FALSE
    /\ UNCHANGED <<obj, bench_class, benchVars, event_id_start, live_handles,
                   next_handle, destroy_log, report, check_result, histVars,
                   matchVars, fnVars, genVars>>

----------------------------------------------------------------------------
(* Workload matchers: BenchmarkDescriptionCategory of each workload *)

\* BaseWorkloadName of each workload's description class
BaseWorkloadName(m) ==
    CASE m = "DotProduct" -> <<"D", "o", "t", "P", "r", "o", "d", "u", "c", "t">>
      [] m = "LogisticRegression" -> <<"L", "o", "g", "R", "e", "g">>
      [] m = "MatrixMultiply" -> <<"M", "a", "t", "M", "u", "l">>

\* WorkloadParameterCount of each workload's description class
WorkloadParameterCount(m) ==
    CASE m = "DotProduct" -> 1
      [] m = "LogisticRegression" -> 1
      [] m = "MatrixMultiply" -> 3

\* WorkloadParameterType[i] of every description class
WorkloadParameterType(m, i) == "UInt64"

\* DotProduct::BenchmarkDescriptionCategory::fetchVectorSize
DotProduct_fetchVectorSize(w_params) ==
    LET n == WorkloadParameterCount("DotProduct")
    IN  IF Len(w_params) < n
        THEN [threw |-> TRUE, value |-> 0]
        ELSE IF \E i \in 1..n :
                    \/ w_params[i].data_type # WorkloadParameterType("DotProduct", i)
                    \/ w_params[i].value <= 0
             THEN [threw |-> TRUE, value |-> 0]
             ELSE [threw |-> FALSE, value |-> w_params[1].value]

\* DotProduct matcher that writes the name before fetchVectorSize and does
\* not reset it in the catch block
DotProduct_match_NoReset(bench_desc, w_params) ==
    IF bench_desc.workload = "DotProduct"
    THEN LET r == DotProduct_fetchVectorSize(w_params)
         IN  IF r.threw
             THEN [threw |-> FALSE, name |-> BaseWorkloadName("DotProduct") \o <<" ">>]
             ELSE [threw |-> FALSE,
                   name |-> BaseWorkloadName("DotProduct") \o <<" ">>
                            \o to_string(r.value)]
    ELSE [threw |-> FALSE, name |-> <<>>]

\* DotProduct matcher without the try/catch around fetchVectorSize
DotProduct_match_NoCatch(bench_desc, w_params) ==
    IF bench_desc.workload = "DotProduct"
    THEN LET r == DotProduct_fetchVectorSize(w_params)
         IN  IF r.threw THEN [threw |-> TRUE, name |-> <<>>]
             ELSE [threw |-> FALSE,
                   name |-> BaseWorkloadName("DotProduct") \o <<" ">>
                            \o to_string(r.value)]
    ELSE [threw |-> FALSE, name |-> <<>>]

\* the DotProduct matcher without the test of bench_desc.workload
DotProduct_matchBenchmarkDescriptor_AnyWorkload(bench_desc, w_params) ==
    LET r == DotProduct_fetchVectorSize(w_params)
    IN  IF r.threw THEN [threw |-> FALSE, name |-> <<>>]
        ELSE [threw |-> FALSE,
              name |-> BaseWorkloadName("DotProduct") \o <<" ">>
                       \o to_string(r.value)]

\* DotProduct::BenchmarkDescriptionCategory::matchBenchmarkDescriptor
DotProduct_matchBenchmarkDescriptor(bench_desc, w_params) ==
    IF bench_desc.workload = "DotProduct"
    THEN LET r == DotProduct_fetchVectorSize(w_params)
         IN  IF r.threw THEN [threw |-> FALSE, name |-> <<>>]
             ELSE [threw |-> FALSE,
                   name |-> BaseWorkloadName("DotProduct") \o <<" ">>
                            \o to_string(r.value)]
    ELSE [threw |-> FALSE, name |-> <<>>]

\* LogisticRegression::BenchmarkDescriptionCategory::fetchVectorSize
LogReg_fetchVectorSize(w_params) ==
    LET n == WorkloadParameterCount("LogisticRegression")
    IN  IF Len(w_params) < n
        THEN [threw |-> TRUE, value |-> 0]
        ELSE IF \E i \in 1..n :
                    \/ w_params[i].data_type
                           # WorkloadParameterType("LogisticRegression", i)
                    \/ w_params[i].value <= 0
             THEN [threw |-> TRUE, value |-> 0]
             ELSE [threw |-> FALSE, value |-> w_params[1].value]

LogRegWorkloads ==
    {"LogisticRegression", "LogisticRegression_PolyD3",
     "LogisticRegression_PolyD5", "LogisticRegression_PolyD7"}

\* LogisticRegression::BenchmarkDescriptionCategory::matchBenchmarkDescriptor
LogReg_matchBenchmarkDescriptor(bench_desc, w_params) ==
    IF bench_desc.workload \in LogRegWorkloads
    THEN LET r == LogReg_fetchVectorSize(w_params)
             poly == CASE bench_desc.workload = "LogisticRegression_PolyD3"
                            -> <<"P", "o", "l", "y", "D", "3", " ">>
                       [] bench_desc.workload = "LogisticRegression_PolyD5"
                            -> <<"P", "o", "l", "y", "D", "5", " ">>
                       [] bench_desc.workload = "LogisticRegression_PolyD7"
                            -> <<"P", "o", "l", "y", "D", "7", " ">>
                       [] OTHER -> <<>>
         IN  IF r.threw THEN [threw |-> FALSE, name |-> <<>>]
             ELSE [threw |-> FALSE,
                   name |-> BaseWorkloadName("LogisticRegression") \o <<" ">>
                            \o poly \o to_string(r.value)
                            \o <<" ", "f", "e", "a", "t", "u", "r", "e", "s">>]
    ELSE [threw |-> FALSE, name |-> <<>>]

\* MatrixMultiply::BenchmarkDescriptionCategory::fetchMatrixSizes
MatMul_fetchMatrixSizes(w_params) ==
    LET n == WorkloadParameterCount("MatrixMultiply")
    IN  IF Len(w_params) < n
        THEN [threw |-> TRUE, value |-> <<>>]
        ELSE IF \E i \in 1..n :
                    \/ w_params[i].data_type
                           # WorkloadParameterType("MatrixMultiply", i)
                    \/ w_params[i].value <= 0
             THEN [threw |-> TRUE, value |-> <<>>]
             ELSE [threw |-> FALSE,
                   value |-> << <<w_params[1].value, w_params[2].value>>,
                                <<w_params[2].value, w_params[3].value>> >>]

\* MatrixMultiply::BenchmarkDescriptionCategory::matchBenchmarkDescriptor
MatMul_matchBenchmarkDescriptor(bench_desc, w_params) ==
    IF bench_desc.workload = "MatrixMultiply"
    THEN LET r == MatMul_fetchMatrixSizes(w_params)
             mat_dims == r.value
         IN  IF r.threw THEN [threw |-> FALSE, name |-> <<>>]
             ELSE [threw |-> FALSE,
                   name |-> BaseWorkloadName("MatrixMultiply") \o <<" ", "(">>
                            \o to_string(mat_dims[1][1]) \o <<"x">>
                            \o to_string(mat_dims[1][2])
                            \o <<")", " ", "x", " ", "(">>
                            \o to_string(mat_dims[2][1]) \o <<"x">>
                            \o to_string(mat_dims[2][2]) \o <<")">>]
    ELSE [threw |-> FALSE, name |-> <<>>]

\* The virtual matchBenchmarkDescriptor(bench_desc, w_params) of matcher m
WorkloadMatch(m, bench_desc, w_params) ==
    CASE m = "DotProduct" -> DotProduct_matchBenchmarkDescriptor(bench_desc, w_params)
      [] m = "LogisticRegression" -> LogReg_matchBenchmarkDescriptor(bench_desc, w_params)
      [] m = "MatrixMultiply" -> MatMul_matchBenchmarkDescriptor(bench_desc, w_params)

----------------------------------------------------------------------------
(* hebench::Utilities::convertToDirectoryName *)

Upper == <<"A", "B", "C", "D", "E", "F", "G", "H", "I", "J", "K", "L", "M", "N", "O", "P", "Q", "R", "S", "T", "U", "V", "W", "X", "Y", "Z">>

Lower == <<"a", "b", "c", "d", "e", "f", "g", "h", "i", "j", "k", "l", "m", "n", "o", "p", "q", "r", "s", "t", "u", "v", "w", "x", "y", "z">>

Range(f) == {f[i] : i \in DOMAIN f}

\* std::isalnum in the "C" locale
isalnum(c) == c \in Range(Upper) \cup Range(Lower) \cup Range(Digits)

\* std::tolower in the "C" locale
tolower(c) ==
    IF c \in Range(Upper)
    THEN Lower[CHOOSE i \in DOMAIN Upper : Upper[i] = c]
    ELSE c

\* std::string::npos; positions are 0-based as in the code
NPOS == -1

SetMin(S) == CHOOSE x \in S : \A y \in S : x <= y

SetMax(S) == CHOOSE x \in S : \A y \in S : x >= y

\* std::string::find_first_of(c, pos)
find_first_of(s, c, pos) ==
    LET hits == {i \in pos..(Len(s) - 1) : s[i + 1] = c}
    IN  IF hits = {} THEN NPOS ELSE SetMin(hits)

\* std::string::find_first_not_of(c, pos)
find_first_not_of(s, c, pos) ==
    LET hits == {i \in pos..(Len(s) - 1) : s[i + 1] # c}
    IN  IF hits = {} THEN NPOS ELSE SetMin(hits)

\* std::string::find_last_not_of(c)
find_last_not_of(s, c) ==
    LET hits == {i \in 0..(Len(s) - 1) : s[i + 1] # c}
    IN  IF hits = {} THEN NPOS ELSE SetMax(hits)

\* the loop of convertToDirectoryName without the skip of the underscores
\* that follow the one it copied
RemoveRepetitions_NoSkip(s_tmp, pos, ss_retval) ==
    ss_retval \o SubSeq(s_tmp, pos + 1, Len(s_tmp))

\* The while loop of convertToDirectoryName: copies up to and including the
\* next underscore, then skips the underscores that follow it
RECURSIVE RemoveRepetitions(_, _, _)
RemoveRepetitions(s_tmp, pos, ss_retval) ==
    IF pos = NPOS \/ ~(pos < Len(s_tmp))
    THEN ss_retval
    ELSE LET i == find_first_of(s_tmp, "_", pos)
         IN  IF i = NPOS
             THEN RemoveRepetitions(s_tmp, NPOS,
                                    ss_retval \o SubSeq(s_tmp, pos + 1, Len(s_tmp)))
             ELSE LET j == IF i < Len(s_tmp) THEN i + 1 ELSE i
                  IN  RemoveRepetitions(s_tmp, find_first_not_of(s_tmp, "_", j),
                                        ss_retval \o SubSeq(s_tmp, pos + 1, j))

\* convertToDirectoryName that leaves the other characters as they are
convertToDirectoryName_KeepOthers(s, to_lowercase) ==
    [i \in 1..Len(s) |-> IF to_lowercase THEN tolower(s[i]) ELSE s[i]]

\* convertToDirectoryName that erases one leading underscore only
convertToDirectoryName_EraseOne(s, to_lowercase) ==
    LET t1 == [i \in 1..Len(s) |->
                  IF isalnum(s[i]) \/ s[i] = "."
                  THEN (IF to_lowercase THEN tolower(s[i]) ELSE s[i])
                  ELSE "_"]
        t2 == IF t1 # <<>> /\ t1[1] = "_" THEN Tail(t1) ELSE t1
        last == find_last_not_of(t2, "_")
        t3 == SubSeq(t2, 1, last + 1)
    IN  RemoveRepetitions(t3, 0, <<>>)

\* hebench::Utilities::convertToDirectoryName(s, to_lowercase)
convertToDirectoryName(s, to_lowercase) ==
    LET t1 == [i \in 1..Len(s) |->
                  IF isalnum(s[i]) \/ s[i] = "."
                  THEN (IF to_lowercase THEN tolower(s[i]) ELSE s[i])
                  ELSE "_"]
        first == find_first_not_of(t1, "_", 0)
        t2 == IF first = NPOS THEN <<>> ELSE SubSeq(t1, first + 1, Len(t1))
        last == find_last_not_of(t2, "_")
        t3 == SubSeq(t2, 1, last + 1)
    IN  RemoveRepetitions(t3, 0, <<>>)

\* The value of the defaulted to_lowercase argument in the calls of describe
DefaultToLowercase == FALSE

----------------------------------------------------------------------------
(* PartialBenchmarkDescription *)

\* static_cast<int>(bench_desc.workload): the enumerators of APIBridge::Workload
WorkloadValue(w) ==
    CASE w = "MatrixMultiply" -> 0
      [] w = "EltwiseAdd" -> 1
      [] w = "DotProduct" -> 3
      [] w = "LogisticRegression" -> 4
      [] w = "LogisticRegression_PolyD3" -> 5
      [] w = "LogisticRegression_PolyD5" -> 6
      [] w = "LogisticRegression_PolyD7" -> 7

\* Width of cipher_param_mask: sizeof(std::uint32_t) * 8
MaskBits == 32

\* A 32-bit mask is kept as its two 16-bit halves; bit i of the mask
BitTest(mask, i) ==
    IF i < 16
    THEN (mask.lo \div (2 ^ i)) % 2 = 1
    ELSE (mask.hi \div (2 ^ (i - 16))) % 2 = 1

\* getCipherParamPositions with a loop that stops at the low half of the mask
getCipherParamPositions_LowHalf(cipher_param_mask) ==
    {i \in 0..((MaskBits \div 2) - 1) : BitTest(cipher_param_mask, i)}

\* PartialBenchmarkDescription::getCipherParamPositions
getCipherParamPositions(cipher_param_mask) ==
    {i \in 0..(MaskBits - 1) : BitTest(cipher_param_mask, i)}

\* PartialBenchmarkDescription::getCategoryName
getCategoryName(category) ==
    CASE category = "Latency" -> [threw |-> FALSE, name |-> <<"L", "a", "t", "e", "n", "c", "y">>]
      [] category = "Offline" -> [threw |-> FALSE, name |-> <<"O", "f", "f", "l", "i", "n", "e">>]
      [] OTHER -> [threw |-> TRUE, name |-> <<>>]

\* PartialBenchmarkDescription::getDataTypeName
getDataTypeName(data_type) ==
    CASE data_type = "Int32" -> [threw |-> FALSE, name |-> <<"I", "n", "t", "3", "2">>]
      [] data_type = "Int64" -> [threw |-> FALSE, name |-> <<"I", "n", "t", "6", "4">>]
      [] data_type = "Float32" -> [threw |-> FALSE, name |-> <<"F", "l", "o", "a", "t", "3", "2">>]
      [] data_type = "Float64" -> [threw |-> FALSE, name |-> <<"F", "l", "o", "a", "t", "6", "4">>]
      [] OTHER -> [threw |-> TRUE, name |-> <<>>]

\* operator<< of a workload parameter value (integral values)
StreamNumber(v) == IF v < 0 THEN <<"-">> \o to_string(0 - v) ELSE to_string(v)

\* std::filesystem::path::operator/= on generic-format strings
PathAppend(path, p) ==
    IF p # <<>> /\ p[1] = "/" THEN p
    ELSE IF path # <<>> /\ path[Len(path)] # "/" THEN path \o <<"/">> \o p
    ELSE path \o p

RECURSIVE ConcatAll(_)
\* successive ss << x for the elements of a sequence of strings
ConcatAll(seq) == IF seq = <<>> THEN <<>> ELSE Head(seq) \o ConcatAll(Tail(seq))

RECURSIVE SortedSeq(_)
\* std::sort of the elements of a set
SortedSeq(set) ==
    IF set = {} THEN <<>>
    ELSE LET m == SetMin(set) IN <<m>> \o SortedSeq(set \ {m})

\* describe, lines 201-212: the category parameters segment
CatParamsSegment(bench_desc) ==
    LET reserved == bench_desc.cat_params
        nz == {i \in 1..Len(reserved) : reserved[i] # 0}
        max_non_zero == IF nz = {} THEN 0 ELSE SetMax(nz)
    IN  IF max_non_zero > 0
        THEN ConcatAll([i \in 1..max_non_zero |-> to_string(reserved[i])])
        ELSE <<"d", "e", "f", "a", "u", "l", "t">>

\* the cipher/plain segment with a loop that stops before max_elem
CipherSegment_StopsBeforeMax(bench_desc) ==
    LET cipher_param_pos == getCipherParamPositions(bench_desc.cipher_param_mask)
    IN  IF cipher_param_pos = {} THEN <<"a", "l", "l", "_", "p", "l", "a", "i", "n">>
        ELSE IF Cardinality(cipher_param_pos) >= MaskBits THEN <<"a", "l", "l", "_", "c", "i", "p", "h", "e", "r">>
        ELSE LET max_elem == SetMax(cipher_param_pos)
             IN  [i \in 1..max_elem |->
                     IF (i - 1) \in cipher_param_pos THEN "c" ELSE "p"]

\* describe, lines 213-227: the cipher/plain parameters segment
CipherSegment(bench_desc) ==
    LET cipher_param_pos == getCipherParamPositions(bench_desc.cipher_param_mask)
    IN  IF cipher_param_pos = {} THEN <<"a", "l", "l", "_", "p", "l", "a", "i", "n">>
        ELSE IF Cardinality(cipher_param_pos) >= MaskBits THEN <<"a", "l", "l", "_", "c", "i", "p", "h", "e", "r">>
        ELSE LET max_elem == SetMax(cipher_param_pos)
             IN  [i \in 1..(max_elem + 1) |->
                     IF (i - 1) \in cipher_param_pos THEN "c" ELSE "p"]

\* describe, lines 169-230: the output path
DescribePath(bench_desc, w_params, s_workload_name, s_scheme_name, s_security_name) ==
    LET first == (IF s_workload_name # <<>> THEN s_workload_name \o <<"_">> ELSE <<>>)
                 \o to_string(WorkloadValue(bench_desc.workload))
        wp == <<"w", "p">> \o
              ConcatAll([i \in 1..Len(w_params) |->
                            <<"_">> \o StreamNumber(w_params[i].value)])
        p1 == convertToDirectoryName(first, DefaultToLowercase)
        p2 == PathAppend(p1, convertToDirectoryName(wp, DefaultToLowercase))
        p3 == PathAppend(p2, convertToDirectoryName(
                                 getCategoryName(bench_desc.category).name,
                                 DefaultToLowercase))
        p4 == PathAppend(p3, convertToDirectoryName(
                                 getDataTypeName(bench_desc.data_type).name,
                                 DefaultToLowercase))
        p5 == PathAppend(p4, CatParamsSegment(bench_desc))
        p6 == PathAppend(p5, CipherSegment(bench_desc))
        p7 == PathAppend(p6, convertToDirectoryName(s_scheme_name, DefaultToLowercase))
        p8 == PathAppend(p7, convertToDirectoryName(s_security_name, DefaultToLowercase))
    IN  PathAppend(p8, to_string(bench_desc.other))

\* the header list of encrypted parameters without the std::sort, the
\* positions coming out of the set in descending order
HeaderCipherText_Descending(bench_desc) ==
    LET cipher_param_pos == getCipherParamPositions(bench_desc.cipher_param_mask)
    IN  IF cipher_param_pos = {} THEN <<",", " ", "N", "o", "n", "e">>
        ELSE IF Cardinality(cipher_param_pos) >= MaskBits THEN <<",", " ", "A", "l", "l">>
        ELSE LET cipher_params == SortedSeq(cipher_param_pos)
                 n == Len(cipher_params)
             IN  ConcatAll([i \in 1..n |->
                               <<",", " ">> \o to_string(cipher_params[n + 1 - i])])

\* describe, lines 275-291: the encrypted parameters listed in the header
HeaderCipherText(bench_desc) ==
    LET cipher_param_pos == getCipherParamPositions(bench_desc.cipher_param_mask)
    IN  IF cipher_param_pos = {} THEN <<",", " ", "N", "o", "n", "e">>
        ELSE IF Cardinality(cipher_param_pos) >= MaskBits THEN <<",", " ", "A", "l", "l">>
        ELSE LET cipher_params == SortedSeq(cipher_param_pos)
             IN  ConcatAll([i \in 1..Len(cipher_params) |->
                               <<",", " ">> \o to_string(cipher_params[i])])

\* describe, lines 245-273: the header lines of the category
HeaderCategoryLines(bench_desc) ==
    IF bench_desc.category = "Latency"
    THEN <<[text |-> ", , Warmup iterations, ",
            value |-> to_string(bench_desc.cat_params[1])],
           [text |-> ", , Minimum test time requested (ms), ",
            value |-> to_string(bench_desc.cat_params[2])]>>
    ELSE LET data_count == bench_desc.cat_params
             nz == SortedSeq({i \in 1..Len(data_count) : data_count[i] # 0})
         IN  <<[text |-> ", , Parameter, Samples requested", value |-> <<>>]>>
             \o [k \in 1..Len(nz) |->
                    [text |-> ", , ",
                     value |-> to_string(nz[k] - 1) \o <<",", " ">>
                               \o to_string(data_count[nz[k]])]]
             \o (IF nz = <<>>
                 THEN <<[text |-> ", , All, 0", value |-> <<>>]>>
                 ELSE <<>>)

\* describe, lines 232-291: the report header, one record per line
DescribeHeader(bench_desc, s_workload_name, s_scheme_name, s_security_name, s_extra) ==
    <<[text |-> "Specifications,", value |-> <<>>],
      [text |-> ", Encryption, ", value |-> <<>>],
      [text |-> ", , Scheme, ", value |-> s_scheme_name],
      [text |-> ", , Security, ", value |-> s_security_name],
      [text |-> ", Extra, ", value |-> to_string(bench_desc.other)],
      [text |-> "", value |-> s_extra],
      [text |-> ", Category, ", value |-> getCategoryName(bench_desc.category).name]>>
    \o HeaderCategoryLines(bench_desc)
    \o <<[text |-> ", Workload, ", value |-> s_workload_name],
         [text |-> ", , Data type, ",
          value |-> getDataTypeName(bench_desc.data_type).name],
         [text |-> ", , Encrypted op parameters (index)",
          value |-> HeaderCipherText(bench_desc)]>>

\* The description class' completeDescription hook
completeDescription(description) == description

\* PartialBenchmarkDescription::describe(engine, pre_token): fills the
\* description of the token; throws on an unknown category or data type
describe(self, pre_token, workload_name, backend) ==
    LET h == Unseal(pre_token, self, "h_desc")
        d == Unseal(pre_token, self, "bench_desc")
        w == Unseal(pre_token, self, "w_params")
        bench_desc == d.value
        s_workload_name ==
            IF workload_name # <<>> THEN workload_name
            ELSE to_string(WorkloadValue(bench_desc.workload))
    IN  IF \/ ~(h.ok /\ d.ok /\ w.ok)
           \/ getCategoryName(bench_desc.category).threw
           \/ getDataTypeName(bench_desc.data_type).threw
        THEN [threw |-> TRUE, workload_name |-> workload_name,
              header |-> <<>>, path |-> <<>>]
        ELSE completeDescription(
                 [threw |-> FALSE,
                  workload_name |-> s_workload_name,
                  header |-> DescribeHeader(bench_desc, s_workload_name,
                                            backend.scheme_name,
                                            backend.security_name, backend.extra),
                  path |-> DescribePath(bench_desc, w.value, workload_name,
                                        backend.scheme_name,
                                        backend.security_name)])

\* A null DescriptionToken::Ptr and an empty Description
NoToken == createToken("none", LifeConfig, 0, LifeDesc, <<>>)

NoDescription == [workload_name |-> <<>>, header |-> <<>>, path |-> <<>>]

\* matchBenchmarkDescriptor without the comparison of w_params_count
matchBenchmarkDescriptor_NoCountCheck(self, bench_config, h_desc, bench_desc, w_params, backend) ==
    IF ~validateRetCode(backend.rc_details)
    THEN [status |-> "error", calls |-> <<"getWorkloadParamsDetails">>,
          sealed |-> NoToken, description |-> NoDescription]
    ELSE IF ~validateRetCode(backend.rc_describe)
    THEN [status |-> "error",
          calls |-> <<"getWorkloadParamsDetails", "describeBenchmark">>,
          sealed |-> NoToken, description |-> NoDescription]
    ELSE LET m == WorkloadMatch(self, bench_desc, w_params)
             calls == <<"getWorkloadParamsDetails", "describeBenchmark",
                        "matchBenchmarkDescriptor">>
         IN  IF m.threw
             THEN [status |-> "error", calls |-> calls, sealed |-> NoToken,
                   description |-> NoDescription]
             ELSE IF m.name # <<>>
             THEN LET token == createToken(self, bench_config, h_desc,
                                           bench_desc, w_params)
                      d == describe(self, token, m.name, backend)
                  IN  IF d.threw
                      THEN [status |-> "error",
                            calls |-> calls \o <<"createToken", "describe">>,
                            sealed |-> NoToken, description |-> NoDescription]
                      ELSE [status |-> "token",
                            calls |-> calls \o <<"createToken", "describe">>,
                            sealed |-> token,
                            description |-> [workload_name |-> d.workload_name,
                                             header |-> d.header,
                                             path |-> d.path]]
             ELSE [status |-> "null", calls |-> calls, sealed |-> NoToken,
                   description |-> NoDescription]


\* matchBenchmarkDescriptor without the test of the matcher's name
matchBenchmarkDescriptor_NoEmptyCheck(self, bench_config, h_desc, bench_desc, w_params, backend) ==
    IF ~validateRetCode(backend.rc_details)
    THEN [status |-> "error", calls |-> <<"getWorkloadParamsDetails">>,
          sealed |-> NoToken, description |-> NoDescription]
    ELSE IF backend.w_params_count # Len(w_params)
    THEN [status |-> "error", calls |-> <<"getWorkloadParamsDetails">>,
          sealed |-> NoToken, description |-> NoDescription]
    ELSE IF ~validateRetCode(backend.rc_describe)
    THEN [status |-> "error",
          calls |-> <<"getWorkloadParamsDetails", "describeBenchmark">>,
          sealed |-> NoToken, description |-> NoDescription]
    ELSE LET m == WorkloadMatch(self, bench_desc, w_params)
             calls == <<"getWorkloadParamsDetails", "describeBenchmark",
                        "matchBenchmarkDescriptor">>
         IN  IF m.threw
             THEN [status |-> "error", calls |-> calls, sealed |-> NoToken,
                   description |-> NoDescription]
             ELSE IF TRUE
             THEN LET token == createToken(self, bench_config, h_desc,
                                           bench_desc, w_params)
                      d == describe(self, token, m.name, backend)
                  IN  IF d.threw
                      THEN [status |-> "error",
                            calls |-> calls \o <<"createToken", "describe">>,
                            sealed |-> NoToken, description |-> NoDescription]
                      ELSE [status |-> "token",
                            calls |-> calls \o <<"createToken", "describe">>,
                            sealed |-> token,
                            description |-> [workload_name |-> d.workload_name,
                                             header |-> d.header,
                                             path |-> d.path]]
             ELSE [status |-> "null", calls |-> calls, sealed |-> NoToken,
                   description |-> NoDescription]


\* PartialBenchmarkDescription::matchBenchmarkDescriptor(engine, bench_config,
\* h_desc, w_params).  backend holds what the backend answers: the return
\* codes and the workload parameter count; bench_desc is the descriptor that
\* describeBenchmark fills in.  calls lists the backend calls and the harness
\* steps made, in order.
matchBenchmarkDescriptor(self, bench_config, h_desc, bench_desc, w_params, backend) ==
    IF ~validateRetCode(backend.rc_details)
    THEN [status |-> "error", calls |-> <<"getWorkloadParamsDetails">>,
          sealed |-> NoToken, description |-> NoDescription]
    ELSE IF backend.w_params_count # Len(w_params)
    THEN [status |-> "error", calls |-> <<"getWorkloadParamsDetails">>,
          sealed |-> NoToken, description |-> NoDescription]
    ELSE IF ~validateRetCode(backend.rc_describe)
    THEN [status |-> "error",
          calls |-> <<"getWorkloadParamsDetails", "describeBenchmark">>,
          sealed |-> NoToken, description |-> NoDescription]
    ELSE LET m == WorkloadMatch(self, bench_desc, w_params)
             calls == <<"getWorkloadParamsDetails", "describeBenchmark",
                        "matchBenchmarkDescriptor">>
         IN  IF m.threw
             THEN [status |-> "error", calls |-> calls, sealed |-> NoToken,
                   description |-> NoDescription]
             ELSE IF m.name # <<>>
             THEN LET token == createToken(self, bench_config, h_desc,
                                           bench_desc, w_params)
                      d == describe(self, token, m.name, backend)
                  IN  IF d.threw
                      THEN [status |-> "error",
                            calls |-> calls \o <<"createToken", "describe">>,
                            sealed |-> NoToken, description |-> NoDescription]
                      ELSE [status |-> "token",
                            calls |-> calls \o <<"createToken", "describe">>,
                            sealed |-> token,
                            description |-> [workload_name |-> d.workload_name,
                                             header |-> d.header,
                                             path |-> d.path]]
             ELSE [status |-> "null", calls |-> calls, sealed |-> NoToken,
                   description |-> NoDescription]

----------------------------------------------------------------------------
(* Fixed-width machine arithmetic.  A value wider than the checker's       *)
(* integers is the little-endian sequence of its bytes, without high zero  *)
(* bytes (so that equal values are equal sequences); <<>> is zero.         *)

\* evaluates v, then uses it: keeps a value computed in a loop from being
\* carried along unevaluated
Let(v, F(_)) == IF v = v THEN F(v) ELSE F(v)

\* The recursions over the limbs of a number split the range of limbs in
\* two halves, the carry of the low half going into the high one

SetMaxOf(S) == CHOOSE x \in S : \A y \in S : y <= x

\* a without its high zero limbs
BNorm(a) == SubSeq(a, 1, SetMaxOf({0} \cup {i \in 1..Len(a) : a[i] # 0}))

RECURSIVE BFromInt(_)
BFromInt(n) == IF n = 0 THEN <<>> ELSE <<n % 256>> \o BFromInt(n \div 256)

Limb(a, i) == IF i <= Len(a) THEN a[i] ELSE 0

\* limbs lo..hi of a + b, and the carry out of them
RECURSIVE BAddC(_, _, _, _, _)
BAddC(a, b, lo, hi, carry) ==
    IF lo = hi
    THEN [d |-> <<(Limb(a, lo) + Limb(b, lo) + carry) % 256>>,
          c |-> (Limb(a, lo) + Limb(b, lo) + carry) \div 256]
    ELSE Let(BAddC(a, b, lo, (lo + hi) \div 2, carry),
             LAMBDA L : Let(BAddC(a, b, (lo + hi) \div 2 + 1, hi, L.c),
                            LAMBDA H : [d |-> L.d \o H.d, c |-> H.c]))

BAdd(a, b) ==
    IF a = <<>> THEN b
    ELSE IF b = <<>> THEN a
    ELSE Let(BAddC(a, b, 1, IF Len(a) > Len(b) THEN Len(a) ELSE Len(b), 0),
             LAMBDA r : BNorm(r.d \o <<r.c>>))

\* limbs lo..hi of a - b, and the borrow out of them
RECURSIVE BSubC(_, _, _, _, _)
BSubC(a, b, lo, hi, borrow) ==
    IF lo = hi
    THEN [d |-> <<(Limb(a, lo) - Limb(b, lo) - borrow) % 256>>,
          c |-> IF Limb(a, lo) - Limb(b, lo) - borrow < 0 THEN 1 ELSE 0]
    ELSE Let(BSubC(a, b, lo, (lo + hi) \div 2, borrow),
             LAMBDA L : Let(BSubC(a, b, (lo + hi) \div 2 + 1, hi, L.c),
                            LAMBDA H : [d |-> L.d \o H.d, c |-> H.c]))

\* a - b for a >= b
BSub(a, b) == IF a = <<>> THEN <<>> ELSE BNorm(BSubC(a, b, 1, Len(a), 0).d)

\* limbs lo..hi of a * k, and the carry out of them
RECURSIVE BMulSmallC(_, _, _, _, _)
BMulSmallC(a, k, lo, hi, carry) ==
    IF lo = hi
    THEN [d |-> <<(a[lo] * k + carry) % 256>>, c |-> (a[lo] * k + carry) \div 256]
    ELSE Let(BMulSmallC(a, k, lo, (lo + hi) \div 2, carry),
             LAMBDA L : Let(BMulSmallC(a, k, (lo + hi) \div 2 + 1, hi, L.c),
                            LAMBDA H : [d |-> L.d \o H.d, c |-> H.c]))

\* a * k for a small k
BMulSmall(a, k) ==
    IF a = <<>> THEN <<>>
    ELSE Let(BMulSmallC(a, k, 1, Len(a), 0), LAMBDA r : BNorm(r.d \o BFromInt(r.c)))

\* a times the number of the limbs lo..hi of b
RECURSIVE BMulFrom(_, _, _, _)
BMulFrom(a, b, lo, hi) ==
    IF lo = hi THEN BMulSmall(a, b[lo])
    ELSE Let(BMulFrom(a, b, lo, (lo + hi) \div 2),
             LAMBDA L : Let(BMulFrom(a, b, (lo + hi) \div 2 + 1, hi),
                            LAMBDA H : BAdd(L, IF H = <<>> THEN <<>>
                                               ELSE [i \in 1..((lo + hi) \div 2 + 1 - lo) |-> 0] \o H)))

BMul(a, b) == IF a = <<>> \/ b = <<>> THEN <<>> ELSE BMulFrom(a, b, 1, Len(b))

\* a against b, of the same length, at the highest limb where they differ
BCmpAt(a, b) ==
    LET i == SetMaxOf({0} \cup {k \in 1..Len(a) : a[k] # b[k]})
    IN  IF i = 0 THEN 0 ELSE IF a[i] < b[i] THEN -1 ELSE 1

\* -1, 0, 1 as a < b, a = b, a > b
BCmp(a, b) ==
    IF Len(a) < Len(b) THEN -1
    ELSE IF Len(a) > Len(b) THEN 1
    ELSE BCmpAt(a, b)

\* a mod 2^(8 * bytes): what an unsigned object of that many bytes keeps
BTrunc(a, bytes) == BNorm(SubSeq(a, 1, IF Len(a) < bytes THEN Len(a) ELSE bytes))

BPow2(n) == [i \in 1..(n \div 8 + 1) |-> IF i = n \div 8 + 1 THEN 2 ^ (n % 8) ELSE 0]

\* std::uint64_t
U64Bytes == 8

U64(a) == BTrunc(a, U64Bytes)

U64Mul(a, b) == U64(BMul(a, b))

----------------------------------------------------------------------------
(* PartialBenchmarkDescription::computeSampleSizes                         *)
(* (hebench_ibenchmark.cpp:109-123)                                        *)

\* the loop of lines 115-121 from param_i on; sample_sizes and
\* result_batch_size are std::uint64_t
RECURSIVE computeSampleSizesFrom(_, _, _, _, _, _)
computeSampleSizesFrom(param_i, sample_sizes, result_batch_size, param_count, default_sample_size, data_count) ==
    IF param_i > param_count
    THEN [sample_sizes |-> sample_sizes, retval |-> result_batch_size]
    ELSE LET size_i == IF data_count[param_i] = <<>>
                       THEN default_sample_size
                       ELSE data_count[param_i]
         IN  computeSampleSizesFrom(param_i + 1, Append(sample_sizes, size_i),
                                    U64Mul(result_batch_size, size_i),
                                    param_count, default_sample_size, data_count)

computeSampleSizes(param_count, default_sample_size, data_count) ==
    computeSampleSizesFrom(1, <<>>, BFromInt(1), param_count, default_sample_size, data_count)

----------------------------------------------------------------------------
(* Binary floating point (float: 24 significant bits, double: 53), round   *)
(* to nearest, ties to even.  A value is [s, m, e]: (-1)^s * m * 2^e with  *)
(* m = <<>> (zero, e = 0) or 2^(p-1) <= m < 2^p.  Exponent range is not    *)
(* modelled: no value here comes near overflow or the subnormals.          *)

RECURSIVE IntBitLen(_)
IntBitLen(n) == IF n = 0 THEN 0 ELSE 1 + IntBitLen(n \div 2)

\* number of significant bits of a
BBitLen(a) == IF a = <<>> THEN 0 ELSE 8 * (Len(a) - 1) + IntBitLen(a[Len(a)])

Zeros(n) == [i \in 1..n |-> 0]

\* a * 2^n
BShl(a, n) == IF a = <<>> THEN a ELSE Zeros(n \div 8) \o BMulSmall(a, 2 ^ (n % 8))

\* quotient limbs lo..hi of a by k, from the highest down, rem being the
\* remainder left by the limbs above hi; and the remainder they leave
RECURSIVE BDivSmallAt(_, _, _, _, _)
BDivSmallAt(a, k, lo, hi, rem) ==
    IF lo = hi
    THEN [q |-> <<(rem * 256 + a[lo]) \div k>>, r |-> (rem * 256 + a[lo]) % k]
    ELSE Let(BDivSmallAt(a, k, (lo + hi) \div 2 + 1, hi, rem),
             LAMBDA H : Let(BDivSmallAt(a, k, lo, (lo + hi) \div 2, H.r),
                            LAMBDA L : [q |-> L.q \o H.q, r |-> L.r]))

\* quotient and remainder of a by a small k
BDivSmall(a, k) ==
    IF a = <<>> THEN [q |-> <<>>, r |-> 0]
    ELSE Let(BDivSmallAt(a, k, 1, Len(a), 0), LAMBDA d : [q |-> BNorm(d.q), r |-> d.r])

\* floor(a / 2^n), and whether a bit of value 1 was shifted out
BShr(a, n) ==
    LET bytes == IF n \div 8 < Len(a) THEN n \div 8 ELSE Len(a)
        low   == SubSeq(a, 1, bytes)
        high  == SubSeq(a, bytes + 1, Len(a))
    IN  Let(BDivSmall(high, 2 ^ (n % 8)),
            LAMBDA d : [q |-> d.q, lost |-> d.r # 0 \/ BNorm(low) # <<>>])

BOdd(a) == a # <<>> /\ a[1] % 2 = 1

FZero == [s |-> 0, m |-> <<>>, e |-> 0]

\* the value (-1)^s * m * 2^e rounded to p significant bits
\* (n bits of m, of which the k = n - p lowest are cut off: q is what is
\* kept, c compares what is cut off with half a unit of q, r is q rounded
\* to nearest, ties to even)
FRound(s, m, e, p) ==
    IF m = <<>> THEN [s |-> s, m |-> <<>>, e |-> 0]
    ELSE Let(BBitLen(m), LAMBDA n :
         IF n <= p THEN [s |-> s, m |-> BShl(m, p - n), e |-> e - (p - n)]
         ELSE Let(BShr(m, n - p).q, LAMBDA q :
              Let(BCmp(BSub(m, BShl(q, n - p)), BPow2(n - p - 1)), LAMBDA c :
              Let(IF c = 1 \/ (c = 0 /\ BOdd(q)) THEN BAdd(q, <<1>>) ELSE q, LAMBDA r :
                  IF BBitLen(r) > p
                  THEN [s |-> s, m |-> BShr(r, 1).q, e |-> e + (n - p) + 1]
                  ELSE [s |-> s, m |-> r, e |-> e + (n - p)]))))

\* x * y in precision p
FMul(x, y, p) ==
    IF x.m = <<>> \/ y.m = <<>>
    THEN [s |-> (x.s + y.s) % 2, m |-> <<>>, e |-> 0]
    ELSE FRound((x.s + y.s) % 2, BMul(x.m, y.m), x.e + y.e, p)

\* x + y in precision p
FAdd(x, y, p) ==
    IF x.m = <<>> /\ y.m = <<>> THEN [s |-> IF x.s = 1 /\ y.s = 1 THEN 1 ELSE 0, m |-> <<>>, e |-> 0]
    ELSE IF x.m = <<>> THEN y
    ELSE IF y.m = <<>> THEN x
    ELSE Let(IF x.e < y.e THEN x.e ELSE y.e, LAMBDA e :
         Let(BShl(x.m, x.e - e), LAMBDA mx :
         Let(BShl(y.m, y.e - e), LAMBDA my :
         Let(BCmp(mx, my), LAMBDA c :
             IF x.s # y.s /\ c = 0 THEN FZero
             ELSE FRound(IF x.s = y.s \/ c = 1 THEN x.s ELSE y.s,
                         IF x.s = y.s THEN BAdd(mx, my)
                         ELSE BSub(IF c = 1 THEN mx ELSE my, IF c = 1 THEN my ELSE mx),
                         e, p)))))

RECURSIVE BDivPow10From(_, _, _)
BDivPow10From(a, k, lost) ==
    IF k = 0 THEN [q |-> a, lost |-> lost]
    ELSE LET step == IF k < 6 THEN k ELSE 6
         IN  Let(BDivSmall(a, 10 ^ step),
                 LAMBDA d : BDivPow10From(d.q, k - step, lost \/ d.r # 0))

\* floor(a / 10^k), and whether the division left a remainder
BDivPow10(a, k) == BDivPow10From(a, k, FALSE)

\* the decimal literal (-1)^s * digits * 10^(-k) converted to precision p:
\* digits * 2^sh / 10^k is cut to an integer of more than p + 2 bits, with a
\* last bit that records whether anything was cut off
FFromDecimal(s, digits, k, p) ==
    LET sh == p + 3 + 4 * k
    IN  IF digits = <<>> THEN [s |-> s, m |-> <<>>, e |-> 0]
        ELSE Let(BDivPow10(BShl(digits, sh), k), LAMBDA d :
             Let(BShl(d.q, 1), LAMBDA twice :
                 FRound(s, IF d.lost THEN BAdd(twice, <<1>>) ELSE twice,
                        0 - sh - 1, p)))

\* -1, 0, 1 as x < y, x = y, x > y (as real numbers)
FCmp(x, y) ==
    LET e   == IF x.e < y.e THEN x.e ELSE y.e
    IN  IF x.m = <<>> /\ y.m = <<>> THEN 0
        ELSE IF x.s # y.s /\ x.m = <<>> THEN (IF y.s = 1 THEN 1 ELSE -1)
        ELSE IF x.s # y.s THEN (IF x.s = 1 THEN -1 ELSE 1)
        ELSE Let(BCmp(BShl(x.m, x.e - e), BShl(y.m, y.e - e)),
                 LAMBDA mag : IF x.s = 0 THEN mag ELSE 0 - mag)

\* conversion between the two formats (static_cast<T>)
FCast(x, p) == FRound(x.s, x.m, x.e, p)

----------------------------------------------------------------------------
(* Elements of the data buffers, in the four APIBridge data types          *)

DataTypes == {"Int32", "Int64", "Float32", "Float64"}

\* PartialDataLoader::sizeOf
sizeOf(data_type) ==
    CASE data_type = "Int32" -> 4
      [] data_type = "Int64" -> 8
      [] data_type = "Float32" -> 4
      [] data_type = "Float64" -> 8

\* significant bits of float and double
FloatBits == 24
DoubleBits == 53

Precision(data_type) == IF data_type = "Float32" THEN FloatBits ELSE DoubleBits

IsFloat(data_type) == data_type \in {"Float32", "Float64"}

\* A signed integer is [s, m, ub]: (-1)^s * m; ub marks the result of an
\* overflow, which is undefined for signed types: it stands for any value
IntUB == [s |-> 0, m |-> <<>>, ub |-> TRUE]

MkInt(s, m) == [s |-> IF m = <<>> THEN 0 ELSE s, m |-> m, ub |-> FALSE]

IntFromInt(n) == IF n < 0 THEN MkInt(1, BFromInt(0 - n)) ELSE MkInt(0, BFromInt(n))

\* v if it is a value of the signed type of the given size, else undefined
IntFit(v, bytes) ==
    LET c == BCmp(v.m, BPow2(8 * bytes - 1))
    IN  IF c = -1 \/ (c = 0 /\ v.s = 1) THEN v ELSE IntUB

IMul(x, y, bytes) ==
    IF x.ub \/ y.ub THEN IntUB
    ELSE IntFit(MkInt((x.s + y.s) % 2, BMul(x.m, y.m)), bytes)

IAdd(x, y, bytes) ==
    LET c == BCmp(x.m, y.m)
    IN  IF x.ub \/ y.ub THEN IntUB
        ELSE IF x.s = y.s THEN IntFit(MkInt(x.s, BAdd(x.m, y.m)), bytes)
        ELSE IF c = 0 THEN MkInt(0, <<>>)
        ELSE IF c = 1 THEN MkInt(x.s, BSub(x.m, y.m))
        ELSE MkInt(y.s, BSub(y.m, x.m))

\* T()
TZero(data_type) == IF IsFloat(data_type) THEN FZero ELSE MkInt(0, <<>>)

\* operator* and operator+ of T
TMul(data_type, x, y) ==
    IF IsFloat(data_type) THEN FMul(x, y, Precision(data_type))
    ELSE IMul(x, y, sizeOf(data_type))

TAdd(data_type, x, y) ==
    IF IsFloat(data_type) THEN FAdd(x, y, Precision(data_type))
    ELSE IAdd(x, y, sizeOf(data_type))

\* static_cast<T>(v) of the double with the decimal value n / 10^k:
\* integers drop the fraction, float and double round to nearest
TFromDecimal(data_type, n, k) ==
    LET s == IF n < 0 THEN 1 ELSE 0
        a == IF n < 0 THEN 0 - n ELSE n
    IN  IF IsFloat(data_type)
        THEN FCast(FFromDecimal(s, BFromInt(a), k, DoubleBits), Precision(data_type))
        ELSE MkInt(s, BFromInt(a \div (10 ^ k)))

TFromTenths(data_type, tenths) == TFromDecimal(data_type, tenths, 1)

----------------------------------------------------------------------------
(* RandomGenerator (hebench_utilities.cpp:15, 131-139).  The engine is a   *)
(* deterministic sequence of states fixed by the seed; std::mt19937 itself *)
(* is stood for by a counter-based engine with a small state.              *)

RandModulus == 8191
RandIncrement == 1021
MaxDraw == 100

\* seeding that goes on from the state the engine is in
setRandomSeed_FromState(rand, seed) == (rand + seed * RandIncrement) % RandModulus

\* m_rand.seed(seed): the state of the engine rand after it
setRandomSeed(rand, seed) == seed % RandModulus

\* state of the engine after k more draws
RandAdvance(rand, k) == (rand + k * RandIncrement) % RandModulus

\* the k-th value drawn from state rand (k >= 1), in hundredths of the
\* standard deviation: a draw of the truncated normal distribution
RandDraw(rand, k) ==
    LET x == RandAdvance(rand, k)
    IN  ((x * x + 3 * x) % (2 * MaxDraw + 1)) - MaxDraw

----------------------------------------------------------------------------
(* PartialDataLoader: data packs of the inputs and of the results          *)

\* a NativeDataBuffer: its size in bytes, its elements (<<>> until written)
\* and how many times it was written
DataBuffer(size) == [size |-> size, p |-> <<>>, writes |-> 0]

\* PartialDataLoader::init: one pack per input parameter and per result,
\* pack i with batch_sizes[i] buffers, none allocated yet
PartialDataLoader_init(input_dim, batch_sizes, output_dim) ==
    [m_input_data  |-> [i \in 1..input_dim |->
                           [buffer_count |-> batch_sizes[i], p_buffers |-> <<>>]],
     m_output_data |-> [r \in 1..output_dim |->
                           [buffer_count |-> batch_sizes[input_dim + r], p_buffers |-> <<>>]]]

\* PartialDataLoader::allocate: every buffer of pack i gets its size
allocate(loader, input_buffer_sizes, output_buffer_sizes) ==
    [m_input_data  |-> [i \in DOMAIN loader.m_input_data |->
                           [loader.m_input_data[i] EXCEPT !.p_buffers =
                               [b \in 1..loader.m_input_data[i].buffer_count |->
                                   DataBuffer(input_buffer_sizes[i])]]],
     m_output_data |-> [r \in DOMAIN loader.m_output_data |->
                           [loader.m_output_data[r] EXCEPT !.p_buffers =
                               [b \in 1..loader.m_output_data[r].buffer_count |->
                                   DataBuffer(output_buffer_sizes[r])]]]]

\* product of batch[from..Len(batch)]
RECURSIVE BatchProduct(_, _)
BatchProduct(batch, from) ==
    IF from > Len(batch) THEN 1 ELSE batch[from] * BatchProduct(batch, from + 1)

\* IDataLoader::getResultIndex: row-major position of the result for the
\* input samples ppi (0-based), over the buffer counts of the input packs
RECURSIVE getResultIndexFrom(_, _, _)
getResultIndexFrom(batch, ppi, k) ==
    IF k > Len(batch) THEN 0
    ELSE ppi[k] * BatchProduct(batch, k + 1) + getResultIndexFrom(batch, ppi, k + 1)

InputBatch(loader) ==
    [i \in DOMAIN loader.m_input_data |-> loader.m_input_data[i].buffer_count]

getResultIndex(loader, ppi) == getResultIndexFrom(InputBatch(loader), ppi, 1)

\* the input samples whose result is at flat index r_i
getResultIndexInverse(batch, r_i) ==
    [k \in 1..Len(batch) |-> (r_i \div BatchProduct(batch, k + 1)) % batch[k]]

\* DataGeneratorHelper::generateRandomVectorN: elem_count values drawn in
\* order from the engine, the first of them being draw number first; a
\* draw d stands for the value mean + d * stddev / 100 (mean is 0 in
\* every call)
generateRandomVectorN(data_type, rand, first, elem_count, stddev) ==
    [j \in 1..elem_count |->
        TFromDecimal(data_type, RandDraw(rand, first + j - 1) * stddev, 2)]

----------------------------------------------------------------------------
(* Writing the results of a generator: order is the sequence, in loop      *)
(* order, of the input sample indices ppi the loops visit; visit n writes  *)
(* values[n] to the result buffer getResultIndex(order[n])                 *)

WriteResults(loader, order, values) ==
    LET pack   == loader.m_output_data[1]
        at(n)  == getResultIndex(loader, order[n])
        visits(r) == {n \in 1..Len(order) : at(n) = r - 1}
    IN  [threw |-> \E n \in 1..Len(order) : at(n) >= pack.buffer_count,
         loader |-> [loader EXCEPT !.m_output_data[1].p_buffers =
                        [r \in 1..pack.buffer_count |->
                            IF visits(r) = {} THEN pack.p_buffers[r]
                            ELSE [pack.p_buffers[r] EXCEPT
                                     !.p = values[SetMaxOf(visits(r))],
                                     !.writes = Cardinality(visits(r))]]]]

\* number of elements the input packs before pack i hold in all
RECURSIVE ElemsBefore(_, _, _)
ElemsBefore(batch_sizes, elem_counts, i) ==
    IF i = 1 THEN 0
    ELSE ElemsBefore(batch_sizes, elem_counts, i - 1)
             + batch_sizes[i - 1] * elem_counts[i - 1]

\* the input loops of the generators: pack by pack and, in a pack, sample
\* by sample, every sample drawn whole from the engine
GenerateInputs(loader, data_type, rand, batch_sizes, elem_counts, stddev) ==
    [loader EXCEPT !.m_input_data =
        [i \in DOMAIN loader.m_input_data |->
            [loader.m_input_data[i] EXCEPT !.p_buffers =
                [b \in 1..loader.m_input_data[i].buffer_count |->
                    [loader.m_input_data[i].p_buffers[b] EXCEPT
                        !.p = generateRandomVectorN(data_type, rand,
                                  ElemsBefore(batch_sizes, elem_counts, i)
                                      + (b - 1) * elem_counts[i] + 1,
                                  elem_counts[i], stddev),
                        !.writes = 1]]]]]

InputElems(batch_sizes, elem_counts) ==
    ElemsBefore(batch_sizes, elem_counts, Len(elem_counts) + 1)

----------------------------------------------------------------------------
(* DotProduct data generator (hebench_dotproduct.cpp:94-241)               *)

DotProduct_InputDim0 == 2
DotProduct_OutputDim0 == 1

\* std::inner_product(a, a + elem_count, b, acc) from element k on
RECURSIVE inner_product(_, _, _, _, _, _)
inner_product(data_type, a, b, elem_count, k, acc) ==
    IF k > elem_count THEN acc
    ELSE Let(TAdd(data_type, acc, TMul(data_type, a[k], b[k])),
             LAMBDA v : inner_product(data_type, a, b, elem_count, k + 1, v))

\* inner_product that leaves out the last pair of elements
vectorDotProduct_DropLast(data_type, a, b, elem_count) ==
    [threw |-> data_type \notin DataTypes,
     result |-> IF data_type \in DataTypes
                THEN inner_product(data_type, a, b, elem_count - 1, 1, TZero(data_type))
                ELSE <<>>]

\* DataGeneratorHelper::vectorDotProduct
vectorDotProduct(data_type, a, b, elem_count) ==
    [threw |-> data_type \notin DataTypes,
     result |-> IF data_type \in DataTypes
                THEN inner_product(data_type, a, b, elem_count, 1, TZero(data_type))
                ELSE <<>>]

\* the result loops (lines 223-238): a_i outside, b_i inside
DotProduct_ResultOrder(batch_size_a, batch_size_b) ==
    [n \in 1..(batch_size_a * batch_size_b) |->
        <<(n - 1) \div batch_size_b, (n - 1) % batch_size_b>>]

\* the result loops with the two sample indices exchanged in ppi
DotProduct_DataGenerator_init_Swapped(vector_size, batch_size_a, batch_size_b, data_type, rand) ==
    LET batch_sizes  == <<batch_size_a, batch_size_b, batch_size_a * batch_size_b>>
        elem_counts  == <<vector_size, vector_size>>
        created      == PartialDataLoader_init(DotProduct_InputDim0, batch_sizes,
                                               DotProduct_OutputDim0)
        allocated    == allocate(created,
                                 <<vector_size * sizeOf(data_type),
                                   vector_size * sizeOf(data_type)>>,
                                 <<sizeOf(data_type)>>)
        order        == DotProduct_ResultOrder(batch_size_b, batch_size_a)
    IN  IF data_type \notin DataTypes
        THEN [status |-> "threw", m_rand |-> rand]
        ELSE Let(GenerateInputs(allocated, data_type, rand, batch_sizes, elem_counts, 10),
                 LAMBDA filled :
             Let(WriteResults(filled, order,
                     [n \in DOMAIN order |->
                         <<vectorDotProduct(data_type,
                               filled.m_input_data[1].p_buffers[order[n][2] + 1].p,
                               filled.m_input_data[2].p_buffers[order[n][1] + 1].p,
                               vector_size).result>>]),
                 LAMBDA written :
                 [status |-> IF written.threw THEN "threw" ELSE "ready",
                  m_input_data |-> written.loader.m_input_data,
                  m_output_data |-> written.loader.m_output_data,
                  m_rand |-> RandAdvance(rand, InputElems(batch_sizes, elem_counts))]))

\* DotProduct::DataGenerator::init
DotProduct_DataGenerator_init(vector_size, batch_size_a, batch_size_b, data_type, rand) ==
    LET batch_sizes  == <<batch_size_a, batch_size_b, batch_size_a * batch_size_b>>
        elem_counts  == <<vector_size, vector_size>>
        created      == PartialDataLoader_init(DotProduct_InputDim0, batch_sizes,
                                               DotProduct_OutputDim0)
        allocated    == allocate(created,
                                 <<vector_size * sizeOf(data_type),
                                   vector_size * sizeOf(data_type)>>,
                                 <<sizeOf(data_type)>>)
        order        == DotProduct_ResultOrder(batch_size_a, batch_size_b)
    IN  IF data_type \notin DataTypes
        THEN [status |-> "threw", m_rand |-> rand]
        ELSE Let(GenerateInputs(allocated, data_type, rand, batch_sizes, elem_counts, 10),
                 LAMBDA filled :
             Let(WriteResults(filled, order,
                     [n \in DOMAIN order |->
                         <<vectorDotProduct(data_type,
                               filled.m_input_data[1].p_buffers[order[n][1] + 1].p,
                               filled.m_input_data[2].p_buffers[order[n][2] + 1].p,
                               vector_size).result>>]),
                 LAMBDA written :
                 [status |-> IF written.threw THEN "threw" ELSE "ready",
                  m_input_data |-> written.loader.m_input_data,
                  m_output_data |-> written.loader.m_output_data,
                  m_rand |-> RandAdvance(rand, InputElems(batch_sizes, elem_counts))]))

----------------------------------------------------------------------------
(* MatrixMultiply data generator (part_001:179-333)                        *)

MatrixMultiply_InputDim0 == 2
MatrixMultiply_OutputDim0 == 1

\* the innermost loop of matMul from col_a on (0-based), acc being
\* mat_result[row_a * cols_b + col_b]
RECURSIVE matMulCell(_, _, _, _, _, _, _, _, _)
matMulCell(data_type, mat_a, mat_b, row_a, col_b, cols_a, cols_b, col_a, acc) ==
    IF col_a >= cols_a THEN acc
    ELSE Let(TAdd(data_type, acc,
                  TMul(data_type, mat_a[row_a * cols_a + col_a + 1],
                                  mat_b[col_a * cols_b + col_b + 1])),
             LAMBDA v : matMulCell(data_type, mat_a, mat_b, row_a, col_b,
                                   cols_a, cols_b, col_a + 1, v))

\* matMul that reads mat_b column by column
matMul_ColumnMajorB(data_type, mat_a, mat_b, rows_a, cols_a, cols_b) ==
    [threw |-> data_type \notin DataTypes,
     mat_result |->
        IF data_type \in DataTypes
        THEN [n \in 1..(rows_a * cols_b) |->
                 matMulCell(data_type, mat_a,
                            [j \in 1..(cols_a * cols_b) |->
                                mat_b[((j - 1) % cols_b) * cols_a + ((j - 1) \div cols_b) + 1]],
                            (n - 1) \div cols_b, (n - 1) % cols_b,
                            cols_a, cols_b, 0, TZero(data_type))]
        ELSE <<>>]

\* DataGeneratorHelper::matMul
matMul(data_type, mat_a, mat_b, rows_a, cols_a, cols_b) ==
    [threw |-> data_type \notin DataTypes,
     mat_result |->
        IF data_type \in DataTypes
        THEN [n \in 1..(rows_a * cols_b) |->
                 matMulCell(data_type, mat_a, mat_b,
                            (n - 1) \div cols_b, (n - 1) % cols_b,
                            cols_a, cols_b, 0, TZero(data_type))]
        ELSE <<>>]

\* the result loops (lines 314-330): m0_i outside, m1_i inside
MatrixMultiply_ResultOrder(batch_size_mat_a, batch_size_mat_b) ==
    [n \in 1..(batch_size_mat_a * batch_size_mat_b) |->
        <<(n - 1) \div batch_size_mat_b, (n - 1) % batch_size_mat_b>>]

\* MatrixMultiply::DataGenerator::init
MatrixMultiply_DataGenerator_init(rows_a, cols_a, cols_b, batch_size_mat_a, batch_size_mat_b, data_type, rand) ==
    LET batch_sizes  == <<batch_size_mat_a, batch_size_mat_b,
                          batch_size_mat_a * batch_size_mat_b>>
        mat_dims     == <<<<rows_a, cols_a>>, <<cols_a, cols_b>>, <<rows_a, cols_b>>>>
        buffer_sizes == [i \in 1..3 |-> mat_dims[i][1] * mat_dims[i][2] * sizeOf(data_type)]
        elem_counts  == [i \in 1..MatrixMultiply_InputDim0 |-> mat_dims[i][1] * mat_dims[i][2]]
        created      == PartialDataLoader_init(MatrixMultiply_InputDim0, batch_sizes,
                                               MatrixMultiply_OutputDim0)
        allocated    == allocate(created, <<buffer_sizes[1], buffer_sizes[2]>>,
                                 <<buffer_sizes[3]>>)
        order        == MatrixMultiply_ResultOrder(batch_size_mat_a, batch_size_mat_b)
    IN  IF data_type \notin DataTypes
        THEN [status |-> "threw", m_rand |-> rand]
        ELSE Let(GenerateInputs(allocated, data_type, rand, batch_sizes, elem_counts, 10),
                 LAMBDA filled :
             Let(WriteResults(filled, order,
                     [n \in DOMAIN order |->
                         matMul(data_type,
                                filled.m_input_data[1].p_buffers[order[n][1] + 1].p,
                                filled.m_input_data[2].p_buffers[order[n][2] + 1].p,
                                mat_dims[1][1], mat_dims[1][2], mat_dims[2][2]).mat_result]),
                 LAMBDA written :
                 [status |-> IF written.threw THEN "threw" ELSE "ready",
                  m_input_data |-> written.loader.m_input_data,
                  m_output_data |-> written.loader.m_output_data,
                  m_rand |-> RandAdvance(rand, InputElems(batch_sizes, elem_counts))]))

----------------------------------------------------------------------------
(* LogisticRegression data generator (part_000:140-333)                    *)

\* the integer written with the decimal digits ds, most significant first
RECURSIVE BFromDigits(_, _, _)
BFromDigits(ds, k, acc) ==
    IF k > Len(ds) THEN acc
    ELSE Let(BAdd(BMulSmall(acc, 10), BFromInt(ds[k])),
             LAMBDA v : BFromDigits(ds, k + 1, v))

\* the double of the literal (-1)^s * 0.ds (ds: the digits after the point)
DoubleLiteral(s, ds) == FFromDecimal(s, BFromDigits(ds, 1, <<>>), Len(ds), DoubleBits)

\* the loop of evaluatePolynomial: it runs from the coefficient before the
\* last one down to the first, retval = retval * x + *it
RECURSIVE evaluatePolynomialFrom(_, _, _, _, _)
evaluatePolynomialFrom(p, x, coeff, it, retval) ==
    IF it = 0 THEN retval
    ELSE Let(FAdd(FMul(retval, x, p), coeff[it], p),
             LAMBDA v : evaluatePolynomialFrom(p, x, coeff, it - 1, v))

\* evaluatePolynomial that takes coeff in descending powers
evaluatePolynomial_Descending(p, x, coeff) ==
    evaluatePolynomialFrom(p, x, [k \in 1..Len(coeff) |-> coeff[Len(coeff) + 1 - k]],
                           Len(coeff) - 1, coeff[1])

\* DataGeneratorHelper::evaluatePolynomial<T, Container>, T being a floating
\* type of p significant bits
evaluatePolynomial(p, x, coeff) ==
    evaluatePolynomialFrom(p, x, coeff, Len(coeff) - 1, coeff[Len(coeff)])

PolynomialDegrees == {0, 3, 5, 7}

\* static const std::array<double, degree + 1> poly of sigmoid<degree>
SigmoidPoly(degree) ==
    LET lit == CASE degree = 3 ->
                      <<<<0, <<5>>>>, <<0, <<1, 5, 0, 1, 2>>>>, <<0, <<>>>>,
                        <<1, <<0, 0, 1, 5, 9, 3, 0, 0, 7, 8, 1, 2, 5>>>>>>
                 [] degree = 5 ->
                      <<<<0, <<5>>>>, <<0, <<1, 9, 1, 3, 1>>>>, <<0, <<>>>>,
                        <<1, <<0, 0, 4, 5, 9, 6, 3>>>>, <<0, <<>>>>,
                        <<0, <<0, 0, 0, 0, 4, 1, 2, 3, 3, 2, 0, 0, 0, 7, 3, 2, 4, 2,
                               1, 8, 7, 5>>>>>>
                 [] degree = 7 ->
                      <<<<0, <<5>>>>, <<0, <<2, 1, 6, 8, 7>>>>, <<0, <<>>>>,
                        <<1, <<0, 0, 8, 1, 9, 1, 5, 4, 2, 9, 6, 8, 7, 5>>>>, <<0, <<>>>>,
                        <<0, <<0, 0, 0, 1, 6, 5, 8, 3, 3, 1, 2, 9, 8, 8, 2, 8, 1, 2, 5>>>>,
                        <<0, <<>>>>,
                        <<1, <<0, 0, 0, 0, 0, 1, 1, 9, 5, 6, 1, 6, 7, 2, 2, 1, 0, 6, 9,
                               3, 3, 5, 9, 3, 7, 5>>>>>>
    IN  [i \in DOMAIN lit |-> DoubleLiteral(lit[i][1], lit[i][2])]

\* sigmoid<degree> without the term of the highest power
sigmoid_NoTopTerm(degree, x) ==
    IF degree = 0 THEN [fn |-> "sigmoid<0>", x |-> x]
    ELSE Let(SigmoidPoly(degree),
             LAMBDA poly : evaluatePolynomial(DoubleBits, x, SubSeq(poly, 1, Len(poly) - 1)))

\* sigmoid<degree>(double x); sigmoid<0> is 1.0 / (1.0 + std::exp(-x)), kept
\* as the name of that value
sigmoid(degree, x) ==
    IF degree = 0 THEN [fn |-> "sigmoid<0>", x |-> x]
    ELSE evaluatePolynomial(DoubleBits, x, SigmoidPoly(degree))

\* static_cast<T> of the double returned by sigmoid
SigmoidCast(y, p) ==
    IF "fn" \in DOMAIN y THEN [y EXCEPT !.fn = "static_cast<T>(sigmoid<0>)"]
    ELSE FCast(y, p)

\* inference that leaves the bias out
logisticRegressionInference_NoBias(data_type, poly_deg, p_w, b, p_input, feature_count) ==
    IF ~IsFloat(data_type) THEN [threw |-> TRUE]
    ELSE Let(inner_product(data_type, p_w, p_input, feature_count, 1, TZero(data_type)),
             LAMBDA linear_regression :
             [threw |-> FALSE,
              result |-> SigmoidCast(sigmoid(IF poly_deg \in {3, 5, 7} THEN poly_deg ELSE 0,
                                             FCast(linear_regression, DoubleBits)),
                                     Precision(data_type))])

\* DataGeneratorHelper::logisticRegressionInference
logisticRegressionInference(data_type, poly_deg, p_w, b, p_input, feature_count) ==
    IF ~IsFloat(data_type) THEN [threw |-> TRUE]
    ELSE Let(TAdd(data_type,
                  inner_product(data_type, p_w, p_input, feature_count, 1,
                                TZero(data_type)),
                  b),
             LAMBDA linear_regression :
             [threw |-> FALSE,
              result |-> SigmoidCast(sigmoid(IF poly_deg \in {3, 5, 7} THEN poly_deg ELSE 0,
                                             FCast(linear_regression, DoubleBits)),
                                     Precision(data_type))])

LogisticRegression_InputDim0 == 3
LogisticRegression_OutputDim0 == 1

\* the result loop (lines 317-330): the samples of X in order, W and b
\* being the only sample of their pack
LogisticRegression_ResultOrder(batch_size_input) ==
    [n \in 1..batch_size_input |-> <<0, 0, n - 1>>]

\* LogisticRegression::DataGenerator::init
LogisticRegression_DataGenerator_init(polynomial_degree, vector_size, batch_size_input, data_type, rand) ==
    LET batch_sizes  == <<1, 1, batch_size_input, batch_size_input>>
        buffer_sizes == <<vector_size * sizeOf(data_type), sizeOf(data_type),
                          vector_size * sizeOf(data_type), sizeOf(data_type)>>
        elem_counts  == [i \in 1..LogisticRegression_InputDim0 |->
                            buffer_sizes[i] \div sizeOf(data_type)]
        created      == PartialDataLoader_init(LogisticRegression_InputDim0, batch_sizes,
                                               LogisticRegression_OutputDim0)
        allocated    == allocate(created,
                                 <<buffer_sizes[1], buffer_sizes[2], buffer_sizes[3]>>,
                                 <<buffer_sizes[4]>>)
        order        == LogisticRegression_ResultOrder(batch_size_input)
    IN  IF data_type \notin DataTypes
        THEN [status |-> "threw", m_rand |-> rand]
        ELSE IF ~IsFloat(data_type) /\ batch_size_input > 0
        THEN [status |-> "threw",
              m_rand |-> RandAdvance(rand, InputElems(batch_sizes, elem_counts))]
        ELSE Let(GenerateInputs(allocated, data_type, rand, batch_sizes, elem_counts, 1),
                 LAMBDA filled :
             Let(WriteResults(filled, order,
                     [n \in DOMAIN order |->
                         <<logisticRegressionInference(data_type, polynomial_degree,
                               filled.m_input_data[1].p_buffers[1].p,
                               filled.m_input_data[2].p_buffers[1].p[1],
                               filled.m_input_data[3].p_buffers[order[n][3] + 1].p,
                               vector_size).result>>]),
                 LAMBDA written :
                 [status |-> IF written.threw THEN "threw" ELSE "ready",
                  m_input_data |-> written.loader.m_input_data,
                  m_output_data |-> written.loader.m_output_data,
                  m_rand |-> RandAdvance(rand, InputElems(batch_sizes, elem_counts))]))

----------------------------------------------------------------------------
(* Specifications *)

SeqsUpTo(S, n) == UNION {[1..k -> S] : k \in 0..n}

NoMatch == [done |-> FALSE, threw |-> FALSE, name |-> <<>>]

NoResult == [status |-> "pending", calls |-> <<>>, sealed |-> NoToken,
             description |-> NoDescription]

DefaultBackend ==
    [rc_details |-> 0, w_params_count |-> 0, rc_describe |-> 0,
     scheme_name |-> <<"C", "K", "K", "S">>, security_name |-> <<"1", "2", "8", " ", "b", "i", "t", "s">>, extra |-> <<>>]

\* No benchmark object yet; the engine exists and its creator holds it
LifeInit ==
    /\ obj = "none"
    /\ bench_class = "none"
    /\ m_p_engine = FALSE
    /\ m_handle = 0
    /\ m_current_event_id = 0
    /\ m_b_constructed = FALSE
    /\ m_b_initialized = FALSE
    /\ m_h_descriptor = 0
    /\ m_benchmark_descriptor = LifeDesc
    /\ m_workload_params = <<>>
    /\ m_bench_config = LifeConfig
    /\ owner_holds = TRUE
    /\ live_handles = {}
    /\ next_handle = 1
    /\ destroy_log = <<>>
    /\ report = <<>>
    /\ check_result = "none"
    /\ token_caller = "none"
    /\ init_backend_calls = 0
    /\ init_backend_ok = 0
    /\ post_init_calls = 0
    /\ ordered = FALSE

MatchIdle ==
    /\ in_matcher = "DotProduct"
    /\ in_desc = LifeDesc
    /\ in_wparams = <<>>
    /\ in_backend = DefaultBackend
    /\ out_match = NoMatch
    /\ out_token = NoResult

(* Life cycle of one PartialBenchmark *)

NoGenerator == [status |-> "none"]

GenIdle ==
    /\ m_rand = 0
    /\ data_gen = NoGenerator
    /\ gen_log = <<>>

FnIdle ==
    /\ fn_args = [fn |-> "none"]
    /\ fn_ret = [done |-> FALSE]
    /\ GenIdle

Init ==
    /\ LifeInit
    /\ event_id_start \in 0..MaxEventIDStart
    /\ MatchIdle
    /\ FnIdle

Next ==
    \/ \E cls \in Matchers, p_engine_null \in BOOLEAN, t \in LifeTokens :
            PartialBenchmarkCtor(cls, p_engine_null, t)
    \/ \E err_code \in {0, 1} : initBackend(err_code)
    \/ postInit
    \/ checkInitializationState
    \/ PartialBenchmarkDtor
    \/ EngineOwnerReset

Spec == Init /\ [][Next]_vars

(* The workload matchers applied to a descriptor and a w_params vector *)

WParamElems ==
    {WParam("UInt64", 0), WParam("UInt64", 2), WParam("UInt64", 3),
     WParam("Float64", 2)}

InitMatch ==
    /\ LifeInit
    /\ event_id_start = 0
    /\ in_matcher \in Matchers
    /\ in_desc \in {[LifeDesc EXCEPT !.workload = w] : w \in Workloads}
    /\ in_wparams \in SeqsUpTo(WParamElems, MaxWParams)
    /\ in_backend = DefaultBackend
    /\ out_match = NoMatch
    /\ out_token = NoResult
    /\ FnIdle

ApplyWorkloadMatcher ==
    /\ ~out_match.done
    /\ out_match' = LET m == WorkloadMatch(in_matcher, in_desc, in_wparams)
                    IN  [done |-> TRUE, threw |-> m.threw, name |-> m.name]
    /\ UNCHANGED <<lifeVars, in_matcher, in_desc, in_wparams, in_backend, out_token, fnVars, genVars>>

NextMatch == ApplyWorkloadMatcher

SpecMatch == InitMatch /\ [][NextMatch]_vars

(* matchBenchmarkDescriptor(engine, ...) against a backend *)

TokenWParamElems == {WParam("UInt64", 0), WParam("UInt64", 2), WParam("Float64", 2)}

TokenWorkloads ==
    {"DotProduct", "LogisticRegression_PolyD3", "MatrixMultiply", "EltwiseAdd"}

InitToken ==
    /\ LifeInit
    /\ event_id_start = 0
    /\ in_matcher \in Matchers
    /\ in_desc \in {[LifeDesc EXCEPT !.workload = w, !.category = c, !.data_type = t] :
                       w \in TokenWorkloads,
                       c \in {"Latency", "Offline", "Unknown"},
                       t \in {"Int32", "Float64", "Unknown"}}
    /\ in_wparams \in SeqsUpTo(TokenWParamElems, MaxTokenWParams)
    /\ in_backend \in {[DefaultBackend EXCEPT !.rc_details = a, !.rc_describe = b,
                                              !.w_params_count = Len(in_wparams) + k] :
                          a \in {0, 1}, b \in {0, 1}, k \in {0, 1}}
    /\ out_match = NoMatch
    /\ out_token = NoResult
    /\ FnIdle

MatchDescriptor ==
    /\ out_token.status = "pending"
    /\ out_token' = matchBenchmarkDescriptor(in_matcher, LifeConfig, 1, in_desc,
                                             in_wparams, in_backend)
    /\ UNCHANGED <<lifeVars, in_matcher, in_desc, in_wparams, in_backend, out_match, fnVars, genVars>>

NextToken == MatchDescriptor

SpecToken == InitToken /\ [][NextToken]_vars

(* computeSampleSizes applied to a descriptor's offline data counts *)

SampleCounts == {<<>>, BFromInt(2), BFromInt(3), BPow2(32)}

DefaultSampleSizes == {BFromInt(1), BFromInt(5), BPow2(32)}

InitSample ==
    /\ LifeInit
    /\ event_id_start = 0
    /\ MatchIdle
    /\ fn_args \in {[fn |-> "computeSampleSizes", param_count |-> n,
                     default_sample_size |-> d, data_count |-> c] :
                       n \in 0..MaxSampleParams, d \in DefaultSampleSizes,
                       c \in [1..MaxSampleParams -> SampleCounts]}
    /\ fn_ret = [done |-> FALSE]
    /\ GenIdle

ComputeSampleSizes ==
    /\ fn_args.fn = "computeSampleSizes"
    /\ ~fn_ret.done
    /\ fn_ret' = LET r == computeSampleSizes(fn_args.param_count,
                                             fn_args.default_sample_size,
                                             fn_args.data_count)
                 IN  [done |-> TRUE, sample_sizes |-> r.sample_sizes, retval |-> r.retval]
    /\ UNCHANGED <<lifeVars, matchVars, fn_args, genVars>>

NextSample == ComputeSampleSizes

SpecSample == InitSample /\ [][NextSample]_vars

(* getCipherParamPositions applied to a cipher_param_mask *)

\* the 16-bit value whose set bits are the positions of P in base..base+15
RECURSIVE HalfWord(_, _, _)
HalfWord(P, base, i) ==
    IF i = MaskBits \div 2 THEN 0
    ELSE (IF base + i \in P THEN 2 ^ i ELSE 0) + HalfWord(P, base, i + 1)

\* the std::uint32_t whose binary digits of value 1 are those at the positions P
MaskOf(P) == [hi |-> HalfWord(P, MaskBits \div 2, 0), lo |-> HalfWord(P, 0, 0)]

MaskPositionSets ==
    {{}, 0..(MaskBits - 1)}
        \cup {Range(f) : f \in [1..MaxMaskBitsSet -> 0..(MaskBits - 1)]}

InitMask ==
    /\ LifeInit
    /\ event_id_start = 0
    /\ MatchIdle
    /\ fn_args \in {[fn |-> "getCipherParamPositions", bits |-> P,
                     cipher_param_mask |-> MaskOf(P)] : P \in MaskPositionSets}
    /\ fn_ret = [done |-> FALSE]
    /\ GenIdle

GetCipherParamPositions ==
    /\ fn_args.fn = "getCipherParamPositions"
    /\ ~fn_ret.done
    /\ fn_ret' = [done |-> TRUE,
                  retval |-> getCipherParamPositions(fn_args.cipher_param_mask)]
    /\ UNCHANGED <<lifeVars, matchVars, fn_args, genVars>>

NextMask == GetCipherParamPositions

SpecMask == InitMask /\ [][NextMask]_vars

(* The DotProduct data generator, seeded and created once, and             *)
(* vectorDotProduct applied to given vectors                               *)

VectorSizes == 1..MaxVectorSize
BatchSizes == 1..MaxBatch
Seeds == 0..MaxSeed

\* the value n of the type
TFromInt(data_type, n) == TFromTenths(data_type, 10 * n)

TVector(data_type, ns) == [k \in DOMAIN ns |-> TFromInt(data_type, ns[k])]

\* argument vectors of vectorDotProduct: small values and, for the
\* integer types, values whose products or sums leave the type
DotProductArgs ==
    {[data_type |-> dt, a |-> TVector(dt, ab[1]), b |-> TVector(dt, ab[2])] :
        dt \in DataTypes,
        ab \in {<<<<1, 2, 3, 4>>, <<5, 6, 7, 8>>>>,
                <<<<-3, 2>>, <<4, 0 - 5>>>>,
                <<<<>>, <<>>>>}}
      \cup
    {[data_type |-> "Int32", a |-> TVector("Int32", ab[1]), b |-> TVector("Int32", ab[2])] :
        ab \in {<<<<65536>>, <<65536>>>>,
                <<<<46341, 1>>, <<46341, 1>>>>,
                <<<<65536, 65536>>, <<65536, -65536>>>>}}

\* the integer of the signed type of the given size that is congruent to v
\* modulo 2^(8 * bytes)
IntWrap(v, bytes) ==
    LET t == BTrunc(v.m, bytes)
        u == IF v.s = 0 \/ t = <<>> THEN t ELSE BSub(BPow2(8 * bytes), t)
    IN  IF BCmp(u, BPow2(8 * bytes - 1)) = -1 THEN MkInt(0, u)
        ELSE MkInt(1, BSub(BPow2(8 * bytes), u))

\* the sum over k <= n of a[k] * b[k], of integers, as a number
RECURSIVE IntInner(_, _, _)
IntInner(a, b, n) ==
    IF n = 0 THEN MkInt(0, <<>>)
    ELSE IAdd(IntInner(a, b, n - 1), IMul(a[n], b[n], 2 * U64Bytes), 2 * U64Bytes)

\* what a build can leave in a T after the evaluation of value: the value,
\* or after a signed overflow the wrapped result or anything else
Outcomes(data_type, value, wide) ==
    IF IsFloat(data_type) \/ ~value.ub THEN {value}
    ELSE {IntWrap(wide, sizeOf(data_type)), IntUB}

SetRandomSeed ==
    /\ data_gen = NoGenerator
    /\ \E seed \in Seeds : m_rand' = setRandomSeed(m_rand, seed)
    /\ UNCHANGED <<lifeVars, matchVars, fnVars, data_gen, gen_log>>

\* (the generator is created in a run that makes no direct call of the helper)
DotProductInit ==
    /\ data_gen = NoGenerator
    /\ fn_args.fn = "none"
    /\ \E vector_size \in VectorSizes, batch_size_a \in BatchSizes,
          batch_size_b \in BatchSizes, data_type \in DataTypes :
          \E g \in {DotProduct_DataGenerator_init(vector_size, batch_size_a,
                                                 batch_size_b, data_type, m_rand)} :
              /\ data_gen' = [g EXCEPT !.m_rand = m_rand] @@
                                [workload |-> "DotProduct",
                                 vector_size |-> vector_size,
                                 batch_size_a |-> batch_size_a,
                                 batch_size_b |-> batch_size_b,
                                 data_type |-> data_type]
              /\ m_rand' = g.m_rand
    /\ UNCHANGED <<lifeVars, matchVars, fnVars, gen_log>>

VectorDotProduct ==
    /\ fn_args.fn = "none"
    /\ data_gen = NoGenerator
    /\ \E args \in DotProductArgs :
          \E r \in {vectorDotProduct(args.data_type, args.a, args.b, Len(args.a))} :
              /\ fn_args' = [fn |-> "vectorDotProduct"] @@ args
              /\ \E out \in Outcomes(args.data_type, r.result,
                                       IntInner(args.a, args.b, Len(args.a))) :
                    fn_ret' = [done |-> TRUE, threw |-> r.threw, result |-> out,
                               overflow |-> ~IsFloat(args.data_type) /\ r.result.ub]
    /\ UNCHANGED <<lifeVars, matchVars, genVars>>

InitDotProduct ==
    /\ LifeInit
    /\ event_id_start = 0
    /\ MatchIdle
    /\ FnIdle

NextDotProduct == SetRandomSeed \/ DotProductInit \/ VectorDotProduct

SpecDotProduct == InitDotProduct /\ [][NextDotProduct]_vars

(* The MatrixMultiply data generator, seeded and created once, and matMul  *)
(* applied to given matrices                                               *)

\* shapes <<rows_a, cols_a, cols_b>> of the matrices tried
MatShapes == {<<1, 1, 1>>, <<2, 3, 2>>, <<1, 2, 3>>, <<3, 1, 2>>}

\* arguments of matMul: matrices of small integer values
MatMulArgs ==
    {[data_type |-> dt, rows_a |-> m[1], cols_a |-> m[2], cols_b |-> m[3],
      mat_a |-> TVector(dt, m[4]), mat_b |-> TVector(dt, m[5])] :
        dt \in DataTypes,
        m \in {<<2, 3, 2, <<1, 2, 3, 4, 5, 6>>, <<1, 0, 0, 1, 1, 0>>>>,
               <<2, 2, 2, <<1, 2, 3, 4>>, <<0, 1, -1, 0>>>>,
               <<1, 3, 1, <<2, -3, 4>>, <<5, 6, 7>>>>,
               <<3, 1, 2, <<1, 2, 3>>, <<4, 5>>>>}}

MatrixMultiplyInit ==
    /\ data_gen = NoGenerator
    /\ fn_args.fn = "none"
    /\ \E shape \in MatShapes, batch_size_mat_a \in BatchSizes,
          batch_size_mat_b \in BatchSizes, data_type \in DataTypes :
          \E g \in {MatrixMultiply_DataGenerator_init(shape[1], shape[2], shape[3],
                       batch_size_mat_a, batch_size_mat_b, data_type, m_rand)} :
              /\ data_gen' = [g EXCEPT !.m_rand = m_rand] @@
                                [workload |-> "MatrixMultiply",
                                 rows_a |-> shape[1], cols_a |-> shape[2],
                                 cols_b |-> shape[3],
                                 batch_size_mat_a |-> batch_size_mat_a,
                                 batch_size_mat_b |-> batch_size_mat_b,
                                 data_type |-> data_type]
              /\ m_rand' = g.m_rand
    /\ UNCHANGED <<lifeVars, matchVars, fnVars, gen_log>>

MatMul ==
    /\ fn_args.fn = "none"
    /\ data_gen = NoGenerator
    /\ \E args \in MatMulArgs :
          \E r \in {matMul(args.data_type, args.mat_a, args.mat_b,
                          args.rows_a, args.cols_a, args.cols_b)} :
              /\ fn_args' = [fn |-> "matMul"] @@ args
              /\ fn_ret' = [done |-> TRUE, threw |-> r.threw, mat_result |-> r.mat_result]
    /\ UNCHANGED <<lifeVars, matchVars, genVars>>

InitMatMul ==
    /\ LifeInit
    /\ event_id_start = 0
    /\ MatchIdle
    /\ FnIdle

NextMatMul == SetRandomSeed \/ MatrixMultiplyInit \/ MatMul

SpecMatMul == InitMatMul /\ [][NextMatMul]_vars

(* sigmoid<3>, sigmoid<5> and sigmoid<7> applied to given doubles *)

\* the doubles n / 8 for the whole numbers n up to MaxPolyArg in magnitude
EighthsToDouble(n) ==
    FFromDecimal(IF n < 0 THEN 1 ELSE 0,
                 BFromInt((IF n < 0 THEN 0 - n ELSE n) * 125), 3, DoubleBits)

PolyArgs == (0 - MaxPolyArg)..MaxPolyArg

Sigmoid ==
    /\ fn_args.fn = "none"
    /\ \E degree \in PolynomialDegrees \ {0}, n \in PolyArgs :
       \E x \in {EighthsToDouble(n)} :
          /\ fn_args' = [fn |-> "sigmoid", degree |-> degree, eighths |-> n,
                         x |-> x, poly |-> SigmoidPoly(degree)]
          /\ fn_ret' = [done |-> TRUE, retval |-> sigmoid(degree, x)]
    /\ UNCHANGED <<lifeVars, matchVars, genVars>>

InitPoly ==
    /\ LifeInit
    /\ event_id_start = 0
    /\ MatchIdle
    /\ FnIdle

NextPoly == Sigmoid

SpecPoly == InitPoly /\ [][NextPoly]_vars

(* The LogisticRegression data generator, seeded and created once, and     *)
(* logisticRegressionInference applied to given vectors                    *)

\* arguments of logisticRegressionInference: w, b and x of whole values
InferenceArgs ==
    {[data_type |-> dt, poly_deg |-> d, p_w |-> TVector(dt, a[1]),
      b |-> TFromInt(dt, a[2]), p_input |-> TVector(dt, a[3])] :
        dt \in DataTypes, d \in PolynomialDegrees,
        a \in {<<<<1, 1>>, 0, <<1, 1>>>>,
               <<<<1, 1>>, 0, <<0, 0>>>>,
               <<<<2, -1>>, 1, <<1, 3>>>>}}

LogisticRegressionInit ==
    /\ data_gen = NoGenerator
    /\ fn_args.fn = "none"
    /\ \E polynomial_degree \in PolynomialDegrees, vector_size \in VectorSizes,
          batch_size_input \in BatchSizes, data_type \in DataTypes :
          \E g \in {LogisticRegression_DataGenerator_init(polynomial_degree, vector_size,
                                                         batch_size_input, data_type, m_rand)} :
              /\ data_gen' = [g EXCEPT !.m_rand = m_rand] @@
                                [workload |-> "LogisticRegression",
                                 polynomial_degree |-> polynomial_degree,
                                 vector_size |-> vector_size,
                                 batch_size_input |-> batch_size_input,
                                 data_type |-> data_type]
              /\ m_rand' = g.m_rand
    /\ UNCHANGED <<lifeVars, matchVars, fnVars, gen_log>>

LogisticRegressionInference ==
    /\ fn_args.fn = "none"
    /\ data_gen = NoGenerator
    /\ \E args \in InferenceArgs :
          /\ fn_args' = [fn |-> "logisticRegressionInference"] @@ args
          /\ fn_ret' = [done |-> TRUE] @@
                       logisticRegressionInference(args.data_type, args.poly_deg, args.p_w,
                                                   args.b, args.p_input, Len(args.p_w))
    /\ UNCHANGED <<lifeVars, matchVars, genVars>>

InitLogReg ==
    /\ LifeInit
    /\ event_id_start = 0
    /\ MatchIdle
    /\ FnIdle

NextLogReg == SetRandomSeed \/ LogisticRegressionInit \/ LogisticRegressionInference

SpecLogReg == InitLogReg /\ [][NextLogReg]_vars

(* Runs of the data generators under the global engine: the engine is      *)
(* seeded, generators are created one after the other, and gen_log keeps   *)
(* what was seeded and what each generator produced                        *)

\* the generators created in the runs: workload, parameters and data type
GenConfigs ==
    {[workload |-> "DotProduct", vector_size |-> v, batch_size_a |-> 1,
      batch_size_b |-> 2, data_type |-> dt] :
        v \in VectorSizes, dt \in {"Int32", "Float64"}}
      \cup
    {[workload |-> "MatrixMultiply", rows_a |-> 1, cols_a |-> 2, cols_b |-> 1,
      batch_size_mat_a |-> 2, batch_size_mat_b |-> 1, data_type |-> "Float32"],
     [workload |-> "LogisticRegression", polynomial_degree |-> 3, vector_size |-> 2,
      batch_size_input |-> 2, data_type |-> "Float64"]}

\* DataGenerator::create of the workload of c with the parameters of c
CreateGenerator(c, rand) ==
    CASE c.workload = "DotProduct" ->
           DotProduct_DataGenerator_init(c.vector_size, c.batch_size_a, c.batch_size_b,
                                         c.data_type, rand)
      [] c.workload = "MatrixMultiply" ->
           MatrixMultiply_DataGenerator_init(c.rows_a, c.cols_a, c.cols_b,
                                             c.batch_size_mat_a, c.batch_size_mat_b,
                                             c.data_type, rand)
      [] c.workload = "LogisticRegression" ->
           LogisticRegression_DataGenerator_init(c.polynomial_degree, c.vector_size,
                                                 c.batch_size_input, c.data_type, rand)

\* the seeds of the runs
RunSeeds == {1, MaxSeed}

CreatedCount == Cardinality({i \in 1..Len(gen_log) : gen_log[i].op = "create"})

LastIsSeed == gen_log # <<>> /\ gen_log[Len(gen_log)].op = "setRandomSeed"

\* RandomGenerator::setRandomSeed(seed); two generators are created in all,
\* and the engine is not seeded twice in a row
SetRandomSeedRun ==
    /\ CreatedCount < 2
    /\ ~LastIsSeed
    /\ \E seed \in RunSeeds :
          /\ m_rand' = setRandomSeed(m_rand, seed)
          /\ gen_log' = Append(gen_log, [op |-> "setRandomSeed", seed |-> seed])
    /\ UNCHANGED <<lifeVars, matchVars, fnVars, data_gen>>

\* RandomGenerator::setRandomSeed(): the seed is the reading of the clock
SetRandomSeedClock ==
    /\ CreatedCount < 2
    /\ ~LastIsSeed
    /\ \E now \in RunSeeds :
          /\ m_rand' = setRandomSeed(m_rand, now)
          /\ gen_log' = Append(gen_log, [op |-> "setRandomSeed", seed |-> now])
    /\ UNCHANGED <<lifeVars, matchVars, fnVars, data_gen>>

\* a generator is created, replacing the one of the benchmark before
CreateGeneratorRun ==
    /\ CreatedCount < 2
    /\ \E c \in GenConfigs :
          \E g \in {CreateGenerator(c, m_rand)} :
              /\ g.status = "ready"
              /\ data_gen' = [g EXCEPT !.m_rand = m_rand] @@ c
              /\ m_rand' = g.m_rand
              /\ gen_log' = Append(gen_log,
                                   [op |-> "create", config |-> c,
                                    m_input_data |-> g.m_input_data,
                                    m_output_data |-> g.m_output_data])
    /\ UNCHANGED <<lifeVars, matchVars, fnVars>>

InitRandom ==
    /\ LifeInit
    /\ event_id_start = 0
    /\ MatchIdle
    /\ FnIdle

NextRandom == SetRandomSeedRun \/ SetRandomSeedClock \/ CreateGeneratorRun

SpecRandom == InitRandom /\ [][NextRandom]_vars

(* getResultIndex applied to the sample indices of given input batches,    *)
(* and the DotProduct generator, whose loops use it                        *)

\* the vectors of input batch sizes tried: every size at least 1, for one
\* to three input parameters (the workloads have two or three)
IndexBatches ==
    UNION {[1..n -> 1..(MaxBatch + 1)] : n \in 1..LogisticRegression_InputDim0}

\* the sample space of a vector of batch sizes
MultiIndices(batch) ==
    {ppi \in [1..Len(batch) -> 0..MaxBatch] : \A k \in 1..Len(batch) : ppi[k] < batch[k]}

GetResultIndex ==
    /\ fn_args.fn = "none"
    /\ data_gen = NoGenerator
    /\ \E batch \in IndexBatches :
          \E ppi \in MultiIndices(batch) :
              /\ fn_args' = [fn |-> "getResultIndex", batch |-> batch, ppi |-> ppi]
              /\ fn_ret' = [done |-> TRUE,
                            retval |-> getResultIndexFrom(batch, ppi, 1),
                            inverse |-> getResultIndexInverse(
                                            batch, getResultIndexFrom(batch, ppi, 1))]
    /\ UNCHANGED <<lifeVars, matchVars, genVars>>

InitIndex ==
    /\ LifeInit
    /\ event_id_start = 0
    /\ MatchIdle
    /\ FnIdle

NextIndex == GetResultIndex \/ DotProductInit

SpecIndex == InitIndex /\ [][NextIndex]_vars

(* convertToDirectoryName applied to a string, and again to its result *)

\* the characters tried: letters of both cases, a digit, the period, the
\* underscore and two characters that are replaced
DirNameChars == {"A", "b", "7", ".", "_", "-", " "}

InitSanitize ==
    /\ LifeInit
    /\ event_id_start = 0
    /\ MatchIdle
    /\ fn_args \in {[fn |-> "convertToDirectoryName", s |-> s, to_lowercase |-> b] :
                       s \in SeqsUpTo(DirNameChars, MaxDirNameLen), b \in BOOLEAN}
    /\ fn_ret = [done |-> FALSE, calls |-> 0]
    /\ GenIdle

ConvertToDirectoryName ==
    /\ fn_args.fn = "convertToDirectoryName"
    /\ fn_ret.calls = 0
    /\ fn_ret' = [done |-> TRUE, calls |-> 1,
                  retval |-> convertToDirectoryName(fn_args.s, fn_args.to_lowercase)]
    /\ UNCHANGED <<lifeVars, matchVars, fn_args, genVars>>

\* the same call on the string the first call returned
ConvertToDirectoryNameAgain ==
    /\ fn_args.fn = "convertToDirectoryName"
    /\ fn_ret.calls = 1
    /\ fn_ret' = [done |-> TRUE, calls |-> 2, first |-> fn_ret.retval,
                  retval |-> convertToDirectoryName(fn_ret.retval, fn_args.to_lowercase)]
    /\ UNCHANGED <<lifeVars, matchVars, fn_args, genVars>>

NextSanitize == ConvertToDirectoryName \/ ConvertToDirectoryNameAgain

SpecSanitize == InitSanitize /\ [][NextSanitize]_vars

(* copyString applied to a buffer of a given size followed by other memory *)

\* the terminating character of a C string
NUL == "NUL"

\* what the memory holds before the call
Untouched == "#"

\* copyString without the std::min on the size of the destination
copyString_NoClamp(dst, mem, size, src) ==
    LET retval == Len(src) + 1
    IN  IF dst /\ size > 0
        THEN [retval |-> retval,
              mem |-> [i \in DOMAIN mem |->
                          IF i < retval - 1 THEN src[i + 1]
                          ELSE IF i = retval - 1 THEN NUL ELSE mem[i]]]
        ELSE [retval |-> retval, mem |-> mem]

\* hebench::Utilities::copyString; dst is FALSE for a null pointer, mem is
\* the memory from the address dst on, indexed from 0
copyString(dst, mem, size, src) ==
    LET retval == Len(src) + 1
    IN  IF dst /\ size > 0
        THEN LET min_size == IF size < retval THEN size ELSE retval
             IN  [retval |-> retval,
                  mem |-> [i \in DOMAIN mem |->
                              IF min_size > 1 /\ i < min_size - 1 THEN src[i + 1]
                              ELSE IF i = min_size - 1 THEN NUL ELSE mem[i]]]
        ELSE [retval |-> retval, mem |-> mem]

\* the characters of the strings copied
CopyChars == {"a", "b"}

InitCopy ==
    /\ LifeInit
    /\ event_id_start = 0
    /\ MatchIdle
    /\ fn_args \in {[fn |-> "copyString", dst |-> d, size |-> n, src |-> s,
                     mem |-> [i \in 0..(MaxCopySize + MaxSrcLen + 1) |-> Untouched]] :
                       d \in BOOLEAN, n \in 0..MaxCopySize,
                       s \in SeqsUpTo(CopyChars, MaxSrcLen)}
    /\ fn_ret = [done |-> FALSE]
    /\ GenIdle

CopyString ==
    /\ fn_args.fn = "copyString"
    /\ ~fn_ret.done
    /\ \E r \in {copyString(fn_args.dst, fn_args.mem, fn_args.size, fn_args.src)} :
          fn_ret' = [done |-> TRUE, retval |-> r.retval, mem |-> r.mem]
    /\ UNCHANGED <<lifeVars, matchVars, fn_args, genVars>>

NextCopy == CopyString

SpecCopy == InitCopy /\ [][NextCopy]_vars

(* describe, reached through matchBenchmarkDescriptor, and called again on *)
(* the token it filled                                                     *)

\* the workloads described, each asked of the matcher that knows it
DescribeWorkloads ==
    {<<"DotProduct", "DotProduct">>,
     <<"LogisticRegression", "LogisticRegression_PolyD3">>,
     <<"MatrixMultiply", "MatrixMultiply">>}

\* category, data type and other of the descriptors tried
DescribeKinds == {<<"Latency", "Float32", 0>>, <<"Offline", "Int64", 7>>}

\* encrypted positions of the masks tried: none, all, some, all but the last
DescribeMaskSets ==
    {{}, 0..(MaskBits - 1), {1}, {0, 2}, {MaskBits - 1}, 0..(MaskBits - 2)}

\* values of the words of cat_params.reserved
CatParamValues == {0, 1, 11}

CatParamVectors == [1..MaxCategoryParams -> CatParamValues]

DescribeDescriptors ==
    {[LifeDesc EXCEPT !.workload = w[2], !.category = k[1], !.data_type = k[2],
                      !.cipher_param_mask = MaskOf(P), !.cat_params = c,
                      !.other = k[3]] :
        w \in DescribeWorkloads, k \in DescribeKinds, P \in DescribeMaskSets,
        c \in CatParamVectors}

DescribeWParams ==
    {<<WParam("UInt64", 2)>>,
     <<WParam("UInt64", 2), WParam("UInt64", 3), WParam("UInt64", 2)>>,
     <<WParam("UInt64", 2), WParam("Int64", -3)>>,
     <<WParam("UInt64", 2), WParam("Int64", 3)>>}

\* names a backend returns: plain, with characters that are replaced, with
\* nothing but such characters, empty
SchemeNames == {<<"C", "K", "K", "S">>, <<"B", "-", "F", " ", "V">>, <<"-", "-">>, <<>>}

\* every scheme name with the plain security name, and the empty security
\* name with a plain and with an empty scheme name
BackendNames ==
    {<<a, <<"1", "2", "8", " ", "b", "i", "t", "s">>>> : a \in SchemeNames}
        \cup {<<<<"C", "K", "K", "S">>, <<>>>>, <<<<>>, <<>>>>}

InitDescribe ==
    /\ LifeInit
    /\ event_id_start = 0
    /\ in_desc \in DescribeDescriptors
    /\ in_matcher \in {w[1] : w \in {v \in DescribeWorkloads : v[2] = in_desc.workload}}
    /\ in_wparams \in DescribeWParams
    /\ in_backend \in {[DefaultBackend EXCEPT !.scheme_name = n[1],
                                              !.security_name = n[2],
                                              !.w_params_count = Len(in_wparams)] :
                          n \in BackendNames}
    /\ out_match = NoMatch
    /\ out_token = NoResult
    /\ FnIdle

\* describe(engine, token) on the token matchBenchmarkDescriptor returned
DescribeAgain ==
    /\ out_token.status = "token"
    /\ ~fn_ret.done
    /\ fn_args' = [fn |-> "describe"]
    /\ fn_ret' = [done |-> TRUE,
                  description |-> describe(in_matcher, out_token.sealed,
                                           out_token.description.workload_name,
                                           in_backend)]
    /\ UNCHANGED <<lifeVars, matchVars, genVars>>

NextDescribe == MatchDescriptor \/ DescribeAgain

SpecDescribe == InitDescribe /\ [][NextDescribe]_vars

(* describe for descriptors that differ in cipher_param_mask only *)

InitCipher ==
    /\ LifeInit
    /\ event_id_start = 0
    /\ in_matcher = "DotProduct"
    /\ in_desc \in {[LifeDesc EXCEPT !.cipher_param_mask = MaskOf(P)] :
                       P \in MaskPositionSets \cup {0..(MaskBits - 2)}}
    /\ in_wparams = LifeWParams
    /\ in_backend = [DefaultBackend EXCEPT !.w_params_count = Len(LifeWParams)]
    /\ out_match = NoMatch
    /\ out_token = NoResult
    /\ FnIdle

NextCipher == MatchDescriptor

SpecCipher == InitCipher /\ [][NextCipher]_vars

----------------------------------------------------------------------------
(* Properties of the PartialBenchmark life cycle (Spec) *)

\* C1: checkInitializationState succeeds only if some postInit call came
\* after an initBackend call that completed.
C1_InitOrderEnforced == check_result = "ok" => ordered

\* C2: while postInit has not been called on the benchmark (fresh, or after
\* initBackend only), checkInitializationState fails with an error and
\* changes no field of the benchmark nor anything the backend or the report
\* holds.
C2_CheckFailsBeforePostInit ==
    [][(checkInitializationState /\ post_init_calls = 0)
          => (check_result' = "error" /\ UNCHANGED <<obj, benchVars, envVars>>)]_vars

\* C2 witness: the check has failed on a benchmark whose initBackend completed
\* and whose postInit was never called.
C2_Witness ==
    /\ obj = "alive"
    /\ check_result = "error"
    /\ post_init_calls = 0
    /\ init_backend_ok > 0

C4_EngineOutlivesBenchmark ==
    /\ obj = "alive" => (m_p_engine /\ EngineAlive)
    /\ obj = "destroyed" => ~m_p_engine
    /\ \A i \in DOMAIN destroy_log : destroy_log[i].engine_alive

\* C4 witness: the benchmark held the last reference to the engine when its
\* destructor ran.
C4_Witness ==
    /\ obj = "destroyed"
    /\ \E i \in DOMAIN destroy_log : destroy_log[i].last_ref

\* C5: a benchmark that has read the sealed contents of a token belongs to
\* the class of the matcher that sealed the token.
C5_NoCrossWiring == obj = "alive" => bench_class = token_caller

----------------------------------------------------------------------------
(* Properties of the workload matchers (SpecMatch) *)

\* The workloads a matcher recognizes
MatcherWorkloads(m) ==
    CASE m = "DotProduct" -> {"DotProduct"}
      [] m = "LogisticRegression" ->
            {"LogisticRegression", "LogisticRegression_PolyD3",
             "LogisticRegression_PolyD5", "LogisticRegression_PolyD7"}
      [] m = "MatrixMultiply" -> {"MatrixMultiply"}

\* The number of workload parameters fixed for a matcher's workload
FixedParamCount(m) == IF m = "MatrixMultiply" THEN 3 ELSE 1

\* C7 as stated: a matcher returns a non-empty name only for a vector of
\* exactly the fixed number of params.
C7_ExactArity ==
    (out_match.done /\ out_match.name # <<>>)
        => Len(in_wparams) = FixedParamCount(in_matcher)

\* C7 amended: a matcher returns a non-empty name only for a vector of at
\* least the fixed number of params (a shorter vector is not supported);
\* params beyond the fixed count are ignored: the vector is matched as its
\* first params are.
C7_AtLeastArity ==
    out_match.done =>
        /\ out_match.name # <<>> => Len(in_wparams) >= FixedParamCount(in_matcher)
        /\ Len(in_wparams) >= FixedParamCount(in_matcher) =>
              out_match.name =
                  WorkloadMatch(in_matcher, in_desc,
                                SubSeq(in_wparams, 1, FixedParamCount(in_matcher))).name

\* C7 witness: a vector longer than the fixed count was given a name.
C7_Witness ==
    /\ out_match.done
    /\ out_match.name # <<>>
    /\ Len(in_wparams) > FixedParamCount(in_matcher)

\* Required param i of the vector is tagged UInt64 (a param that is absent
\* is not)
TaggedUInt64(w_params, i) == i <= Len(w_params) /\ w_params[i].data_type = "UInt64"

\* C8: a matcher never raises; it returns the empty string when the
\* workload is not one of its own, or a required param is not tagged UInt64,
\* or a required param has value 0, and a non-empty name otherwise.
C8_EmptyOrName ==
    out_match.done =>
        /\ ~out_match.threw
        /\ out_match.name = <<>> <=>
              \/ in_desc.workload \notin MatcherWorkloads(in_matcher)
              \/ \E i \in 1..FixedParamCount(in_matcher) :
                    \/ ~TaggedUInt64(in_wparams, i)
                    \/ in_wparams[i].value = 0

\* C8 witness: a matcher refused its own workload, all required params
\* present and tagged UInt64, because one of them has value 0.
C8_Witness ==
    /\ out_match.done
    /\ out_match.name = <<>>
    /\ in_desc.workload \in MatcherWorkloads(in_matcher)
    /\ \A i \in 1..FixedParamCount(in_matcher) : TaggedUInt64(in_wparams, i)
    /\ \E i \in 1..FixedParamCount(in_matcher) : in_wparams[i].value = 0

----------------------------------------------------------------------------
(* Properties of matchBenchmarkDescriptor(engine, ...) (SpecToken) *)

\* The workload matcher was invoked and returned a non-empty name
MatcherAccepted ==
    /\ "matchBenchmarkDescriptor" \in Range(out_token.calls)
    /\ WorkloadMatch(in_matcher, in_desc, in_wparams).name # <<>>

\* C9 as stated: a token is returned exactly when the workload matcher
\* returned a non-empty name.
C9_TokenIffName ==
    out_token.status # "pending" => (out_token.status = "token" <=> MatcherAccepted)

\* C9 amended: a token is returned exactly when the workload matcher
\* returned a non-empty name and describe completed (the category and the
\* data type of the descriptor are known); the token records that name, a
\* non-empty header and a non-empty path.  When the matcher returns empty, a
\* null token is returned and describe is not run; when describe fails, the
\* call fails and no token is returned.
C9_TokenIffNameAndDescribed ==
    out_token.status # "pending" =>
        LET known == /\ in_desc.category \in {"Latency", "Offline"}
                     /\ in_desc.data_type \in {"Int32", "Int64", "Float32", "Float64"}
            invoked == "matchBenchmarkDescriptor" \in Range(out_token.calls)
        IN  /\ out_token.status = "token" <=> (MatcherAccepted /\ known)
            /\ out_token.status = "token" =>
                  /\ out_token.description.workload_name
                        = WorkloadMatch(in_matcher, in_desc, in_wparams).name
                  /\ Len(out_token.description.header) > 0
                  /\ Len(out_token.description.path) > 0
                  /\ out_token.sealed.caller = in_matcher
            /\ (invoked /\ ~MatcherAccepted) =>
                  /\ out_token.status = "null"
                  /\ "describe" \notin Range(out_token.calls)
                  /\ out_token.sealed = NoToken
                  /\ Len(out_token.description.header) = 0
                  /\ Len(out_token.description.path) = 0
            /\ (MatcherAccepted /\ ~known) =>
                  /\ out_token.status = "error"
                  /\ out_token.sealed = NoToken

\* C9 witness: a token was issued for a matrix multiplication.
C9_Witness ==
    /\ out_token.status = "token"
    /\ in_matcher = "MatrixMultiply"
    /\ Len(out_token.description.path) > 0

\* C10: when the backend reports a number of workload params other than
\* Len(w_params), the call fails, issues no token and invokes neither
\* describeBenchmark nor a workload matcher; a nonzero code from
\* getWorkloadParamsDetails or from describeBenchmark fails the call too,
\* without a token.
C10_CountMismatchFailsEarly ==
    out_token.status # "pending" =>
        /\ in_backend.w_params_count # Len(in_wparams) =>
              /\ out_token.status = "error"
              /\ out_token.sealed = NoToken
              /\ "describeBenchmark" \notin Range(out_token.calls)
              /\ "matchBenchmarkDescriptor" \notin Range(out_token.calls)
        /\ (in_backend.rc_details # 0 \/ in_backend.rc_describe # 0) =>
              /\ out_token.status = "error"
              /\ out_token.sealed = NoToken
              /\ "matchBenchmarkDescriptor" \notin Range(out_token.calls)

\* C10 witness: the call failed on the count alone: both return codes are 0
\* and the matcher would have accepted the vector.
C10_Witness ==
    /\ out_token.status = "error"
    /\ in_backend.rc_details = 0
    /\ in_backend.rc_describe = 0
    /\ in_backend.w_params_count # Len(in_wparams)
    /\ WorkloadMatch(in_matcher, in_desc, in_wparams).name # <<>>
    /\ in_desc.category = "Latency"
    /\ in_desc.data_type = "Float64"

----------------------------------------------------------------------------
(* Properties of computeSampleSizes (SpecSample) *)

\* the product of the elements of a sequence, of any size
RECURSIVE BProduct(_)
BProduct(seq) == IF seq = <<>> THEN BFromInt(1) ELSE BMul(Head(seq), BProduct(Tail(seq)))

\* C11: computeSampleSizes sets sample_sizes[i], for every i < param_count,
\* to data_count[i] when that is nonzero and to default_sample_size
\* otherwise, and returns the product of all sample_sizes[i], for every
\* combination of 64-bit values.
C11_ReturnsCartesianProduct ==
    fn_ret.done =>
        /\ Len(fn_ret.sample_sizes) = fn_args.param_count
        /\ \A i \in 1..fn_args.param_count :
              fn_ret.sample_sizes[i] =
                  IF fn_args.data_count[i] # <<>> THEN fn_args.data_count[i]
                  ELSE fn_args.default_sample_size
        /\ fn_ret.retval = BProduct(fn_ret.sample_sizes)

----------------------------------------------------------------------------
(* Properties of getCipherParamPositions (SpecMask) *)

\* C12: for every 32-bit mask and every position i in 0..31, i is in
\* getCipherParamPositions(mask) if and only if bit i of the mask is 1.
C12_PositionsAreSetBits ==
    fn_ret.done =>
        \A i \in 0..(MaskBits - 1) : i \in fn_ret.retval <=> i \in fn_args.bits

C12_Witness ==
    /\ fn_ret.done
    /\ fn_args.cipher_param_mask = [hi |-> 1, lo |-> 4]
    /\ fn_ret.retval = {2, 16}

----------------------------------------------------------------------------
(* Properties of the DotProduct data generator (SpecDotProduct) *)

\* the sum over k <= n of a[k] * b[k] in the type: every product and every
\* partial sum is a value of the type
RECURSIVE TInner(_, _, _, _)
TInner(data_type, a, b, n) ==
    IF n = 0 THEN TZero(data_type)
    ELSE TAdd(data_type, TInner(data_type, a, b, n - 1), TMul(data_type, a[n], b[n]))

\* the result pack of data_gen holds batch_a * batch_b one-element buffers
\* and the one at result_index(a_i, b_i) holds expected(A[a_i], B[b_i])
DotProductResults(expected(_, _)) ==
    LET A == data_gen.m_input_data[1].p_buffers
        B == data_gen.m_input_data[2].p_buffers
        R == data_gen.m_output_data[1].p_buffers
    IN  /\ Len(R) = data_gen.batch_size_a * data_gen.batch_size_b
        /\ \A r \in 1..Len(R) : R[r].size = sizeOf(data_gen.data_type)
        /\ \A a_i \in 0..(data_gen.batch_size_a - 1), b_i \in 0..(data_gen.batch_size_b - 1) :
              R[a_i * data_gen.batch_size_b + b_i + 1].p
                  = <<expected(A[a_i + 1].p, B[b_i + 1].p)>>

----------------------------------------------------------------------------
(* Properties of the MatrixMultiply data generator (SpecMatMul) *)

\* row r of the row-major rows x cols matrix mat, and its column c (0-based)
MatRow(mat, r, cols) == [k \in 1..cols |-> mat[r * cols + k]]
MatCol(mat, c, rows, cols) == [k \in 1..rows |-> mat[(k - 1) * cols + c + 1]]

\* mat_c is the row-major rows_a x cols_b matrix with
\* C[r][c] = sum over k < cols_a of A[r][k] * B[k][c], accumulated left to
\* right in the element type
IsMatrixProduct(data_type, mat_c, mat_a, mat_b, rows_a, cols_a, cols_b) ==
    /\ Len(mat_c) = rows_a * cols_b
    /\ \A r \in 0..(rows_a - 1), c \in 0..(cols_b - 1) :
          mat_c[r * cols_b + c + 1]
              = TInner(data_type, MatRow(mat_a, r, cols_a),
                       MatCol(mat_b, c, cols_a, cols_b), cols_a)

\* C14: matMul writes the row-major rows_a x cols_b matrix with
\* C[r][c] = sum over k < cols_a of A[r][k] * B[k][c], accumulated left to
\* right in the element type; A=[[1,2,3],[4,5,6]], B=[[1,0],[0,1],[1,0]]
\* gives [[4,2],[10,5]]; and the generator stores the product of the
\* samples (m0_i, m1_i) in the result buffer at result_index(m0_i, m1_i).
C14_MatMulRowMajor ==
    /\ fn_args.fn = "matMul" =>
          /\ ~fn_ret.threw
          /\ IsMatrixProduct(fn_args.data_type, fn_ret.mat_result, fn_args.mat_a,
                             fn_args.mat_b, fn_args.rows_a, fn_args.cols_a, fn_args.cols_b)
          /\ fn_args.mat_a = TVector(fn_args.data_type, <<1, 2, 3, 4, 5, 6>>) =>
                fn_ret.mat_result = TVector(fn_args.data_type, <<4, 2, 10, 5>>)
    /\ data_gen.status # "none" =>
          /\ data_gen.status = "ready"
          /\ Len(data_gen.m_output_data[1].p_buffers)
                 = data_gen.batch_size_mat_a * data_gen.batch_size_mat_b
          /\ \A m0_i \in 0..(data_gen.batch_size_mat_a - 1),
                m1_i \in 0..(data_gen.batch_size_mat_b - 1) :
                LET R == data_gen.m_output_data[1].p_buffers[
                             m0_i * data_gen.batch_size_mat_b + m1_i + 1]
                IN  /\ R.size = data_gen.rows_a * data_gen.cols_b * sizeOf(data_gen.data_type)
                    /\ IsMatrixProduct(data_gen.data_type, R.p,
                           data_gen.m_input_data[1].p_buffers[m0_i + 1].p,
                           data_gen.m_input_data[2].p_buffers[m1_i + 1].p,
                           data_gen.rows_a, data_gen.cols_a, data_gen.cols_b)

C14_Witness ==
    /\ fn_args.fn = "matMul"
    /\ fn_args.data_type = "Float64"
    /\ fn_args.mat_a = TVector("Float64", <<1, 2, 3, 4, 5, 6>>)
    /\ fn_args.mat_b = TVector("Float64", <<1, 0, 0, 1, 1, 0>>)
    /\ fn_ret.mat_result = TVector("Float64", <<4, 2, 10, 5>>)

----------------------------------------------------------------------------
(* Properties of evaluatePolynomial and the sigmoid polynomials (SpecPoly) *)

\* x^k and the sum over k < n of coeff[k] * x^k (coeff[0] first), in a
\* floating type of p significant bits
RECURSIVE FPower(_, _, _)
FPower(p, x, k) ==
    IF k = 0 THEN FRound(0, <<1>>, 0, p) ELSE FMul(FPower(p, x, k - 1), x, p)

RECURSIVE PowerSum(_, _, _, _)
PowerSum(p, x, coeff, n) ==
    IF n = 0 THEN FZero
    ELSE FAdd(PowerSum(p, x, coeff, n - 1), FMul(coeff[n], FPower(p, x, n - 1), p), p)

\* a type wide enough to hold every product and sum of the evaluation of
\* a sigmoid polynomial at the arguments tried without rounding
ExactBits == 2 * DoubleBits

FAbsDiff(x, y) == [FAdd(x, [y EXCEPT !.s = 1 - @], ExactBits) EXCEPT !.s = 0]

\* 2^-50
HornerTolerance == [s |-> 0, m |-> <<1>>, e |-> -50]

----------------------------------------------------------------------------
(* Properties of the LogisticRegression data generator (SpecLogReg) *)

\* the inference is that of PolyD3 for w = [1,1], b = 0, x = [1,1]
IsS3Inference ==
    /\ fn_args.fn = "logisticRegressionInference"
    /\ fn_args.poly_deg = 3
    /\ IsFloat(fn_args.data_type)
    /\ fn_args.p_w = TVector(fn_args.data_type, <<1, 1>>)
    /\ fn_args.b = TZero(fn_args.data_type)
    /\ fn_args.p_input = TVector(fn_args.data_type, <<1, 1>>)

\* 1e-10
Tolerance == DoubleLiteral(0, <<0, 0, 0, 0, 0, 0, 0, 0, 0, 1>>)

\* C15 as stated: for PolyD3 with w = [1,1], b = 0, x = [1,1] the ground
\* truth is sigma_3(2) = 0.78749125 within 1e-10.
C15_SigmaThreeOfTwo ==
    (IsS3Inference /\ fn_args.data_type = "Float64") =>
        FCmp(FAbsDiff(fn_ret.result, DoubleLiteral(0, <<7, 8, 7, 4, 9, 1, 2, 5>>)),
             Tolerance) <= 0

\* C15, amended: for PolyD3 with w = [1,1], b = 0, x = [1,1] the ground
\* truth is sigma_3(2) = 0.5 + 0.15012*2 + (-0.0015930078125)*8
\* = 0.7874959375: for Float64 within 1e-10 of it, for Float32 the float
\* nearest to the double computed.
C15_SigmaThreeOfTwoAmended ==
    IsS3Inference =>
        /\ ~fn_ret.threw
        /\ fn_args.data_type = "Float64" =>
              FCmp(FAbsDiff(fn_ret.result,
                            DoubleLiteral(0, <<7, 8, 7, 4, 9, 5, 9, 3, 7, 5>>)),
                   Tolerance) <= 0
        /\ fn_args.data_type = "Float32" =>
              fn_ret.result
                  = FCast(DoubleLiteral(0, <<7, 8, 7, 4, 9, 5, 9, 3, 7, 5>>), FloatBits)

C15_Witness ==
    /\ IsS3Inference
    /\ fn_args.data_type = "Float64"
    /\ fn_ret.result = DoubleLiteral(0, <<7, 8, 7, 4, 9, 5, 9, 3, 7, 5>>)

\* the inference from w, b and x: the polynomial (or sigmoid) of the
\* inner product plus the bias, computed in the data type
ExpectedInference(data_type, poly_deg, w, b, x, n) ==
    SigmoidCast(sigmoid(poly_deg,
                        FCast(TAdd(data_type, TInner(data_type, w, x, n), b), DoubleBits)),
                Precision(data_type))

\* C17: after LogisticRegression DataGenerator::init with batch_size_input
\* = n the W and b packs hold one sample each, the X pack n samples and the
\* result pack n one-element samples; the result at result_index(0, 0, i)
\* is the inference from W[0], b[0] and X[i], and every result buffer has
\* been written.
C17_LogRegBatchLayout ==
    (data_gen.status = "ready" /\ data_gen.workload = "LogisticRegression") =>
        LET W == data_gen.m_input_data[1]
            b == data_gen.m_input_data[2]
            X == data_gen.m_input_data[3]
            R == data_gen.m_output_data[1]
            n == data_gen.batch_size_input
        IN  /\ W.buffer_count = 1 /\ Len(W.p_buffers) = 1
            /\ b.buffer_count = 1 /\ Len(b.p_buffers) = 1
            /\ X.buffer_count = n /\ Len(X.p_buffers) = n
            /\ R.buffer_count = n /\ Len(R.p_buffers) = n
            /\ Len(W.p_buffers[1].p) = data_gen.vector_size
            /\ Len(b.p_buffers[1].p) = 1
            /\ \A i \in 0..(n - 1) :
                  /\ Len(X.p_buffers[i + 1].p) = data_gen.vector_size
                  /\ R.p_buffers[i + 1].size = sizeOf(data_gen.data_type)
                  /\ R.p_buffers[i + 1].writes = 1
                  /\ getResultIndexFrom(<<1, 1, n>>, <<0, 0, i>>, 1) = i
                  /\ R.p_buffers[i + 1].p
                         = <<ExpectedInference(data_gen.data_type,
                                               data_gen.polynomial_degree,
                                               W.p_buffers[1].p, b.p_buffers[1].p[1],
                                               X.p_buffers[i + 1].p, data_gen.vector_size)>>

C17_Witness ==
    /\ data_gen.status = "ready"
    /\ data_gen.workload = "LogisticRegression"
    /\ data_gen.batch_size_input = MaxBatch
    /\ data_gen.vector_size = MaxVectorSize
    /\ data_gen.polynomial_degree = 5
    /\ data_gen.m_input_data[2].p_buffers[1].p # <<FZero>>
    /\ data_gen.m_output_data[1].p_buffers[MaxBatch].writes = 1
    /\ data_gen.m_output_data[1].p_buffers[1].p
           # data_gen.m_output_data[1].p_buffers[MaxBatch].p

----------------------------------------------------------------------------
(* Properties of the runs of the generators (SpecRandom) *)

\* what was asked of the engine and of the generators from the last
\* seeding before event i up to event i: the seed and the generators
\* created since, in order (the start of the log if none was seeded)
LastSeedBefore(i) ==
    SetMaxOf({0} \cup {k \in 1..i : gen_log[k].op = "setRandomSeed"})

GenerationOrder(i) ==
    LET from == LastSeedBefore(i)
    IN  [k \in 1..(i - from + (IF from = 0 THEN 0 ELSE 1)) |->
            LET e == gen_log[(IF from = 0 THEN 1 ELSE from) + k - 1]
            IN  IF e.op = "create" THEN <<"create", e.config>>
                ELSE <<"setRandomSeed", e.seed>>]

\* C18: two runs of a data generator with the same workload, w_params and
\* data type under the same seed, at the same place in the generation
\* order, produce the same input buffers and the same expected outputs.
C18_SameSeedSameData ==
    \A i, j \in 1..Len(gen_log) :
        (/\ gen_log[i].op = "create"
         /\ gen_log[j].op = "create"
         /\ LastSeedBefore(i) # 0
         /\ GenerationOrder(i) = GenerationOrder(j)) =>
            /\ gen_log[i].m_input_data = gen_log[j].m_input_data
            /\ gen_log[i].m_output_data = gen_log[j].m_output_data

C18_Witness ==
    /\ Len(gen_log) = 4
    /\ gen_log[1].op = "setRandomSeed" /\ gen_log[1].seed = MaxSeed
    /\ gen_log[2].op = "create" /\ gen_log[2].config.workload = "DotProduct"
    /\ gen_log[3] = gen_log[1]
    /\ gen_log[4].op = "create" /\ gen_log[4].config = gen_log[2].config
    /\ gen_log[4].m_input_data = gen_log[2].m_input_data
    /\ gen_log[4].m_output_data = gen_log[2].m_output_data
    /\ gen_log[4].m_input_data[1].p_buffers[1].p
           # gen_log[4].m_input_data[2].p_buffers[1].p

----------------------------------------------------------------------------
(* Properties of result_index (SpecIndex) *)

\* result_index as the formula of the data-pack model gives it: the sum of
\* i_k times the product of the batch sizes before k
RECURSIVE ResultIndexFirstFastest(_, _, _)
ResultIndexFirstFastest(batch, ppi, k) ==
    IF k = 0 THEN 0
    ELSE ppi[k] * BatchProduct(SubSeq(batch, 1, k - 1), 1)
             + ResultIndexFirstFastest(batch, ppi, k - 1)

\* index maps the sample space of batch one-to-one onto 0 .. product - 1
IsBijection(batch, index(_)) ==
    /\ \A ppi \in MultiIndices(batch) : index(ppi) \in 0..(BatchProduct(batch, 1) - 1)
    /\ \A p, q \in MultiIndices(batch) : index(p) = index(q) => p = q
    /\ \A r \in 0..(BatchProduct(batch, 1) - 1) : \E ppi \in MultiIndices(batch) : index(ppi) = r

\* C19: for every vector of input batch sizes (each >= 1) result_index maps
\* the sample space one-to-one onto 0 .. product - 1 with no gaps, it and
\* its inverse compose to the identity both ways, result_index((1,2)) = 5
\* for batch (2,3), and the loops of a data generator write every result
\* buffer exactly once.
C19_ResultIndexBijection ==
    /\ fn_args.fn = "getResultIndex" =>
          /\ IsBijection(fn_args.batch, LAMBDA ppi : getResultIndexFrom(fn_args.batch, ppi, 1))
          /\ IsBijection(fn_args.batch,
                         LAMBDA ppi : ResultIndexFirstFastest(fn_args.batch, ppi,
                                                              Len(fn_args.batch)))
          /\ fn_ret.inverse = fn_args.ppi
          /\ \A r \in 0..(BatchProduct(fn_args.batch, 1) - 1) :
                /\ getResultIndexInverse(fn_args.batch, r) \in MultiIndices(fn_args.batch)
                /\ getResultIndexFrom(fn_args.batch,
                                      getResultIndexInverse(fn_args.batch, r), 1) = r
          /\ (fn_args.batch = <<2, 3>> /\ fn_args.ppi = <<1, 2>>) =>
                /\ fn_ret.retval = 5
                /\ ResultIndexFirstFastest(fn_args.batch, fn_args.ppi, 2) = 5
    /\ data_gen.status # "none" =>
          /\ data_gen.status = "ready"
          /\ \A r \in 1..Len(data_gen.m_output_data[1].p_buffers) :
                data_gen.m_output_data[1].p_buffers[r].writes = 1

C19_Witness ==
    /\ fn_args.fn = "getResultIndex"
    /\ fn_args.batch = <<2, 3>>
    /\ fn_args.ppi = <<1, 2>>
    /\ fn_ret.retval = 5
    /\ fn_ret.inverse = <<1, 2>>

----------------------------------------------------------------------------
(* Properties of convertToDirectoryName (SpecSanitize) *)

\* C20: convertToDirectoryName is idempotent: for every string s and either
\* value of to_lowercase, applying it to its own result returns that result.
C20_SanitizerIdempotent ==
    fn_ret.calls = 2 => fn_ret.retval = fn_ret.first

C20_Witness ==
    /\ fn_ret.calls = 2
    /\ fn_args.s = <<"_", "A", "-", " ">>
    /\ fn_args.to_lowercase
    /\ fn_ret.first = <<"a">>
    /\ fn_ret.retval = <<"a">>

\* the positions (1-based) of s that hold an alphanumeric character or a dot
KeptPositions(s) == {i \in 1..Len(s) : isalnum(s[i]) \/ s[i] = "."}

\* the kept characters of s in order, lower-cased if asked, with one
\* underscore wherever other characters stand between two of them
ExpectedDirName(s, to_lowercase) ==
    LET ks == SortedSeq(KeptPositions(s))
    IN  ConcatAll([n \in 1..Len(ks) |->
            (IF n > 1 /\ ks[n] > ks[n - 1] + 1 THEN <<"_">> ELSE <<>>)
            \o <<IF to_lowercase THEN tolower(s[ks[n]]) ELSE s[ks[n]]>>])

\* no underscore first or last in r, and no two side by side
UnderscoresSingleInside(r) ==
    /\ r # <<>> => r[1] # "_" /\ r[Len(r)] # "_"
    /\ \A i \in 1..(Len(r) - 1) : ~(r[i] = "_" /\ r[i + 1] = "_")

\* what the first call of convertToDirectoryName returned
FirstDirName == IF fn_ret.calls = 2 THEN fn_ret.first ELSE fn_ret.retval

\* C21: for every input string convertToDirectoryName returns the
\* alphanumeric characters and dots of the input in order (lower-cased when
\* to_lowercase is set), with exactly one underscore for every maximal run
\* of other characters between two kept characters; the result has no
\* leading, trailing or doubled underscore, and it is empty when the input
\* has no alphanumeric character and no dot.
C21_SanitizerKeepsAlnumAndDots ==
    fn_ret.calls >= 1 =>
        /\ FirstDirName = ExpectedDirName(fn_args.s, fn_args.to_lowercase)
        /\ UnderscoresSingleInside(FirstDirName)
        /\ KeptPositions(fn_args.s) = {} => FirstDirName = <<>>

C21_Witness ==
    /\ fn_ret.calls = 1
    /\ fn_args.s = <<"-", "A", " ", "_">>
    /\ fn_args.to_lowercase
    /\ fn_ret.retval = <<"a">>

----------------------------------------------------------------------------
(* Properties of describe (SpecDescribe) *)

\* the pieces of path between its slashes
PathSegments(path) ==
    LET cuts == SortedSeq({0, Len(path) + 1} \cup {i \in 1..Len(path) : path[i] = "/"})
    IN  [k \in 1..(Len(cuts) - 1) |-> SubSeq(path, cuts[k] + 1, cuts[k + 1] - 1)]

\* seg matches [A-Za-z0-9._]+
IsCleanSegment(seg) ==
    /\ seg # <<>>
    /\ \A i \in 1..Len(seg) : isalnum(seg[i]) \/ seg[i] \in {".", "_"}

\* C22: for every descriptor of a known category and data type, every
\* vector of workload parameters and every scheme and security name of the
\* backend, each segment of the path describe produces is non-empty and
\* made of characters of [A-Za-z0-9._] only, and describe called again for
\* the same descriptor produces the same path.
C22_PathSegmentsCleanAndStable ==
    out_token.status = "token" =>
        /\ \A k \in DOMAIN PathSegments(out_token.description.path) :
              IsCleanSegment(PathSegments(out_token.description.path)[k])
        /\ fn_ret.done => fn_ret.description.path = out_token.description.path

C22_Witness ==
    /\ out_token.status = "token"
    /\ fn_ret.done
    /\ in_backend.scheme_name = <<"B", "-", "F", " ", "V">>
    /\ in_wparams = <<WParam("UInt64", 2), WParam("Int64", -3)>>
    /\ PathSegments(fn_ret.description.path)[2] = <<"w", "p", "_", "2", "_", "3">>
    /\ PathSegments(fn_ret.description.path)[7] = <<"B", "_", "F", "_", "V">>

\* the strings of segs with a slash between each two of them
JoinWithSlash(segs) ==
    ConcatAll([k \in 1..Len(segs) |-> (IF k > 1 THEN <<"/">> ELSE <<>>) \o segs[k]])

\* the nine segments of the canonical path, in order
NineSegments(bench_desc, w_params, workload_name, backend) ==
    <<convertToDirectoryName(workload_name \o <<"_">>
                                 \o to_string(WorkloadValue(bench_desc.workload)),
                             DefaultToLowercase),
      <<"w", "p">> \o ConcatAll([i \in 1..Len(w_params) |->
                                    <<"_">> \o StreamNumber(w_params[i].value)]),
      getCategoryName(bench_desc.category).name,
      getDataTypeName(bench_desc.data_type).name,
      CatParamsSegment(bench_desc),
      CipherSegment(bench_desc),
      convertToDirectoryName(backend.scheme_name, DefaultToLowercase),
      convertToDirectoryName(backend.security_name, DefaultToLowercase),
      to_string(bench_desc.other)>>

\* C23: the path built by describe has exactly nine segments, in this
\* order: the sanitized <workload_name>_<workload_enum>, wp followed by _<p>
\* for each workload parameter, the category name, the data type name, the
\* category-parameters digest or default, the cipher mask string, the
\* sanitized scheme name, the sanitized security name and the decimal value
\* of other; for the unsigned parameters (2, 3, 2) the second is wp_2_3_2.
C23_NineSegmentsInOrder ==
    out_token.status = "token" =>
        /\ PathSegments(out_token.description.path)
             = NineSegments(in_desc, in_wparams, out_token.description.workload_name,
                            in_backend)
        /\ out_token.description.path
             = JoinWithSlash(NineSegments(in_desc, in_wparams,
                                          out_token.description.workload_name,
                                          in_backend))
        /\ (in_wparams = <<WParam("UInt64", 2), WParam("UInt64", 3), WParam("UInt64", 2)>>
               => PathSegments(out_token.description.path)[2]
                      = <<"w", "p", "_", "2", "_", "3", "_", "2">>)

----------------------------------------------------------------------------
(* Properties of the encrypted parameters in the path and in the header    *)
(* (SpecCipher)                                                            *)

\* the positions of the binary digits of value 1 of the mask of in_desc
MaskPositions ==
    {i \in 0..((MaskBits \div 2) - 1) : (in_desc.cipher_param_mask.lo \div (2 ^ i)) % 2 = 1}
        \cup {(MaskBits \div 2) + i : i \in {j \in 0..((MaskBits \div 2) - 1) :
                                               (in_desc.cipher_param_mask.hi \div (2 ^ j)) % 2 = 1}}

\* the sixth segment of the path of the token
CipherPathSegment == PathSegments(out_token.description.path)[6]

\* the positions a cipher segment stands for
SegmentPositions(seg) ==
    IF seg = <<"a", "l", "l", "_", "p", "l", "a", "i", "n">> THEN {}
    ELSE IF seg = <<"a", "l", "l", "_", "c", "i", "p", "h", "e", "r">>
    THEN 0..(MaskBits - 1)
    ELSE {i - 1 : i \in {j \in 1..Len(seg) : seg[j] = "c"}}

\* C24: the cipher mask segment of the path is all_plain when the mask is
\* 0, all_cipher when its 32 bits are set, and otherwise a string as long
\* as the index of the highest set bit plus one, whose i-th character is c
\* if bit i is set and p if it is clear; distinct masks yield distinct
\* segments (the mask can be read back from the segment).
C24_CipherSegmentOfMask ==
    out_token.status = "token" =>
        LET P == MaskPositions
            seg == CipherPathSegment
        IN  /\ P = {} => seg = <<"a", "l", "l", "_", "p", "l", "a", "i", "n">>
            /\ P = 0..(MaskBits - 1)
                  => seg = <<"a", "l", "l", "_", "c", "i", "p", "h", "e", "r">>
            /\ (P # {} /\ P # 0..(MaskBits - 1))
                  => /\ Len(seg) = SetMax(P) + 1
                     /\ \A i \in 0..SetMax(P) :
                           seg[i + 1] = IF i \in P THEN "c" ELSE "p"
            /\ SegmentPositions(seg) = P

C24_Witness ==
    /\ out_token.status = "token"
    /\ MaskPositions = {0, 2}
    /\ CipherPathSegment = <<"c", "p", "c">>

----------------------------------------------------------------------------
(* Properties of copyString (SpecCopy) *)

\* the number of characters of src that a call must copy
CopiedLength ==
    (IF fn_args.size < Len(fn_args.src) + 1 THEN fn_args.size ELSE Len(fn_args.src) + 1) - 1

\* C25: copyString never writes outside dst[0..size-1]; it returns
\* src.size() + 1 whatever dst and size are; with a non-null dst and a
\* positive size it copies the first min(size, src.size() + 1) - 1
\* characters of src and then writes the terminating NUL; with a null dst
\* or size 0 it writes nothing.
C25_CopyStringStaysInside ==
    (fn_args.fn = "copyString" /\ fn_ret.done) =>
        /\ fn_ret.retval = Len(fn_args.src) + 1
        /\ \A i \in DOMAIN fn_ret.mem : i >= fn_args.size => fn_ret.mem[i] = fn_args.mem[i]
        /\ (fn_args.dst /\ fn_args.size > 0)
              => /\ \A i \in 0..(CopiedLength - 1) : fn_ret.mem[i] = fn_args.src[i + 1]
                 /\ fn_ret.mem[CopiedLength] = NUL
        /\ (~fn_args.dst \/ fn_args.size = 0) => fn_ret.mem = fn_args.mem

\* a string longer than the buffer: two characters and the NUL are written
\* in a buffer of three, and the byte after it is left alone
C25_Witness ==
    /\ fn_args.fn = "copyString" /\ fn_ret.done
    /\ fn_args.dst /\ fn_args.size = 3 /\ fn_args.src = <<"a", "b", "a">>
    /\ fn_ret.retval = 4
    /\ fn_ret.mem[0] = "a" /\ fn_ret.mem[1] = "b" /\ fn_ret.mem[2] = NUL
    /\ fn_ret.mem[3] = Untouched


\* the descriptor of the token with other category parameters
WithCatParams(reserved) == [in_desc EXCEPT !.cat_params = reserved]

\* C26: two descriptors that agree on every field except the category
\* parameters get different category-parameters segments, and so different
\* paths.
C26_CatParamsDistinguishPaths ==
    out_token.status = "token" =>
        \A reserved \in CatParamVectors :
            reserved # in_desc.cat_params =>
                /\ CatParamsSegment(WithCatParams(reserved))
                       # PathSegments(out_token.description.path)[5]
                /\ DescribePath(WithCatParams(reserved), in_wparams,
                                out_token.description.workload_name,
                                in_backend.scheme_name, in_backend.security_name)
                       # out_token.description.path


\* what the header of the token says after "Encrypted op parameters (index)"
CipherHeaderText == out_token.description.header[Len(out_token.description.header)].value

RECURSIVE DecimalValue(_)
\* the number a string of decimal digits denotes
DecimalValue(digits) ==
    IF digits = <<>> THEN 0
    ELSE 10 * DecimalValue(SubSeq(digits, 1, Len(digits) - 1))
         + (CHOOSE d \in 0..9 : Digits[d + 1] = digits[Len(digits)])

\* the numbers of a text of the form ", n1, n2, ...", in the order written
ListedIndices(text) ==
    LET cuts == SortedSeq({Len(text) + 1} \cup {i \in 1..Len(text) : text[i] = ","})
    IN  [k \in 1..(Len(cuts) - 1) |->
            DecimalValue(SubSeq(text, cuts[k] + 2, cuts[k + 1] - 1))]

\* C27: the header and the path of one describe call denote the same set of
\* encrypted parameters: the header says None exactly when the path segment
\* is all_plain, All exactly when it is all_cipher, and otherwise lists, in
\* ascending order, exactly the indices whose character in the c/p string
\* of the path is c.
C27_HeaderAgreesWithPath ==
    out_token.status = "token" =>
        LET text == CipherHeaderText
            seg == CipherPathSegment
        IN  /\ text = <<",", " ", "N", "o", "n", "e">>
                  <=> seg = <<"a", "l", "l", "_", "p", "l", "a", "i", "n">>
            /\ text = <<",", " ", "A", "l", "l">>
                  <=> seg = <<"a", "l", "l", "_", "c", "i", "p", "h", "e", "r">>
            /\ (/\ text # <<",", " ", "N", "o", "n", "e">>
                /\ text # <<",", " ", "A", "l", "l">>)
                  => LET listed == ListedIndices(text)
                     IN  /\ \A k \in 1..Len(seg) : seg[k] \in {"c", "p"}
                         /\ text[1] = "," /\ text[2] = " "
                         /\ \A k \in 1..(Len(listed) - 1) : listed[k] < listed[k + 1]
                         /\ {listed[k] : k \in 1..Len(listed)}
                               = {i - 1 : i \in {j \in 1..Len(seg) : seg[j] = "c"}}

C27_Witness ==
    /\ out_token.status = "token"
    /\ CipherPathSegment = <<"p", "p", "c", "p", "p", "p", "p", "p", "p", "p", "p", "c">>
    /\ CipherHeaderText = <<",", " ", "2", ",", " ", "1", "1">>

----------------------------------------------------------------------------
(* Properties of the workload matchers taken together (SpecMatch) *)

\* the matchers that return a non-empty name for the inputs of the state
AcceptingMatchers ==
    {m \in Matchers : WorkloadMatch(m, in_desc, in_wparams).name # <<>>}

\* C28: for every descriptor and vector of workload parameters at most one
\* of the DotProduct, LogisticRegression and MatrixMultiply matchers
\* returns a non-empty name: when the matcher asked accepts, no other does.
C28_MatchersMutuallyExclusive ==
    (out_match.done /\ out_match.name # <<>>) => AcceptingMatchers = {in_matcher}

\* a logistic regression descriptor with one positive size: its matcher
\* accepts, the DotProduct matcher, content with the same parameter, does not
C28_Witness ==
    /\ out_match.done /\ out_match.name # <<>>
    /\ in_matcher = "LogisticRegression"
    /\ in_wparams = <<WParam("UInt64", 2)>>
    /\ ~DotProduct_fetchVectorSize(in_wparams).threw
    /\ AcceptingMatchers = {"LogisticRegression"}

----------------------------------------------------------------------------
(* Properties of the logistic regression matcher and its data generator    *)
(* (SpecToken)                                                             *)

\* C29: every descriptor the LogisticRegression matcher accepts can have
\* its ground truth generated: for the data type of the descriptor,
\* logisticRegressionInference completes without raising an error, and so
\* does the data generator that calls it for each sample.
C29_AcceptedDescriptorsGenerate ==
    (out_token.status = "token" /\ in_matcher = "LogisticRegression") =>
        /\ ~logisticRegressionInference(in_desc.data_type, 3,
                                        TVector(in_desc.data_type, <<1, 1>>),
                                        TFromInt(in_desc.data_type, 0),
                                        TVector(in_desc.data_type, <<1, 1>>), 2).threw
        /\ LogisticRegression_DataGenerator_init(3, in_wparams[1].value, 1,
                                                 in_desc.data_type, 0).status # "threw"

----------------------------------------------------------------------------
(* Properties of initBackend (Spec) *)

\* the events of a report that carry the label Initialization
InitializationEvents(r) == {i \in 1..Len(r) : r[i].label = "Initialization"}

\* C30: a call of initBackend adds exactly one Initialization event to the
\* report if and only if initBenchmark returned success (code 0); when
\* initBenchmark returns a nonzero code the call fails and leaves the
\* report, the event id counter and the initialized flag unchanged.
C30_InitBackendEventIffSuccess ==
    [][\A err_code \in {0, 1} :
          initBackend(err_code) =>
              /\ err_code = 0
                    => /\ Len(report') = Len(report) + 1
                       /\ SubSeq(report', 1, Len(report)) = report
                       /\ report'[Len(report')].label = "Initialization"
                       /\ init_backend_ok' = init_backend_ok + 1
              /\ err_code # 0
                    => /\ report' = report
                       /\ m_current_event_id' = m_current_event_id
                       /\ m_b_initialized' = m_b_initialized
                       /\ init_backend_ok' = init_backend_ok]_vars

\* a failed call and a successful one: two calls, one event
C30_Witness ==
    /\ init_backend_calls = 2
    /\ init_backend_ok = 1
    /\ Cardinality(InitializationEvents(report)) = 1
    /\ ~m_b_initialized

====
